---- MODULE Spec2Model ----
(***************************************************************************)
(* Model of the Word-import flow engine of the InDesign UXP plugin,        *)
(* src/uxp-plugins/indesign/commands/layout.js (layoutWordContent).        *)
(*                                                                         *)
(* The host document (app.activeDocument) is the state the handler acts    *)
(* on: pages, text frames, stories and paragraph styles.  Indices follow   *)
(* the source: page indices are 0-based (page p is pages[p + 1]); a text   *)
(* frame is named by its position in textFrames, 0 standing for null.      *)
(* Text is a sequence of one-character strings.                            *)
(*                                                                         *)
(* The host is InDesign: frames linked by nextTextFrame share one story,   *)
(* a frame shows a bounded number of characters (its capacity, chosen by   *)
(* the host when the frame is created), and overflows is true of the last  *)
(* frame of a thread whose story is longer than the thread's capacity.     *)
(* Under Spec every host call succeeds.                                    *)
(***************************************************************************)
EXTENDS Integers, Sequences, FiniteSets, TLC

----------------------------------------------------------------------------
(* Bounds of the model *)

MaxBlocks == 2
MaxStartPage == 1
MaxInitialPages == 2
MaxCalls == 2
MaxItems == 2
MaxStoryLen == 2

----------------------------------------------------------------------------
(* Characters and text *)

CR == "\r"
TAB == "\t"

NoFrame == 0
BasicParagraph == "[Basic Paragraph]"

Min(a, b) == IF a < b THEN a ELSE b

Max(a, b) == IF a < b THEN b ELSE a

\* a character of a story with the attributes the host keeps for it
PlainChar(ch) ==
    [ch |-> ch, fontStyle |-> "Regular", underline |-> FALSE,
     appliedParagraphStyle |-> BasicParagraph]

PlainText(s) == [k \in 1..Len(s) |-> PlainChar(s[k])]

Chars(story) == [k \in 1..Len(story) |-> story[k].ch]

----------------------------------------------------------------------------
(* Inputs: content blocks, runs, formatting, options *)

\* run.formatting is optional: <<>> when absent, <<f>> when present
NoFormatting == <<>>

\* an option the command does not carry; <<v>> is the option with value v
Absent == <<>>

Formatting(b, i, u) == << [bold |-> b, italic |-> i, underline |-> u] >>

Run(text, formatting) == [text |-> text, formatting |-> formatting]

\* block.style is "" when absent (falsy in the source, as undefined is)
Paragraph(runs, style) ==
    [type |-> "paragraph", runs |-> runs, style |-> style, rows |-> <<>>]

\* rows: sequence of rows; row: sequence of cells; cell: sequence of
\* paragraphs, each carrying runs
Table(rows) ==
    [type |-> "table", runs |-> <<>>, style |-> "", rows |-> rows]

CellPara(text) == [runs |-> << Run(text, NoFormatting) >>]

EmptyNoStyle == Paragraph(<< Run(<<>>, Formatting(TRUE, FALSE, FALSE)) >>, "")

EmptyStyled == Paragraph(<<>>, "Normal")

AllFormatted ==
    Paragraph(<< Run(<<"A", "B">>, Formatting(TRUE, FALSE, FALSE)),
                 Run(<<"C", "D">>, Formatting(FALSE, TRUE, TRUE)) >>, "Heading")

PartlyFormatted ==
    Paragraph(<< Run(<<"A", "B">>, NoFormatting),
                 Run(<<"C", "D">>, Formatting(TRUE, TRUE, FALSE)) >>, "")

PlainThenFormatted ==
    Paragraph(<< Run(<<"A">>, NoFormatting),
                 Run(<<"B">>, Formatting(TRUE, FALSE, FALSE)),
                 Run(<<"C">>, Formatting(FALSE, TRUE, FALSE)) >>, "Heading")

Hello == Paragraph(<< Run(<<"H", "e", "l", "l", "o">>, NoFormatting) >>, "Normal")

OneRowTable == Table(<< << << CellPara(<<"A">>) >>, << CellPara(<<"B">>) >> >> >>)

TwoRowTable ==
    Table(<< << << CellPara(<<"A">>), CellPara(<<"B">>) >> >>,
             << << [runs |-> <<>>] >>, << CellPara(<<"C">>) >> >> >>)

EmptyTable == Table(<<>>)

BlockSet ==
    {EmptyNoStyle, EmptyStyled, AllFormatted, PartlyFormatted, Hello,
     OneRowTable, TwoRowTable, EmptyTable}

RECURSIVE SeqsUpTo(_, _)
SeqsUpTo(S, n) ==
    IF n = 0 THEN { <<>> }
    ELSE LET shorter == SeqsUpTo(S, n - 1)
         IN  shorter \cup { Append(s, x) : s \in {t \in shorter : Len(t) = n - 1}, x \in S }

Contents == SeqsUpTo(BlockSet, MaxBlocks)

NoMapping == [n \in {} |-> ""]

DefaultMapping == [n \in {"Normal"} |-> "Body Text"]

StyleMappings == {NoMapping, DefaultMapping}

\* capacities, in characters, the host may give a frame: what it can show
Capacities == {2, 8}

\* the page geometry of the host: bounds are [y1, x1, y2, x2]
PageA ==
    [bounds |-> <<0, 0, 10, 8>>,
     marginPreferences |-> [top |-> 1, left |-> 1, bottom |-> 1, right |-> 1]]

PageB ==
    [bounds |-> <<0, 0, 12, 9>>,
     marginPreferences |-> [top |-> 2, left |-> 1, bottom |-> 1, right |-> 2]]

\* the page doc.pages.add() appends takes the document's default geometry
NewPage == PageA

RECURSIVE InitialPages(_)
InitialPages(n) ==
    IF n = 0 THEN <<>>
    ELSE Append(InitialPages(n - 1), IF n % 2 = 1 THEN PageB ELSE PageA)

----------------------------------------------------------------------------
(* State *)

VARIABLES
    pc,                 \* "idle", "flowing", "done", "failed"
    pages,              \* doc.pages
    textFrames,         \* every text frame of the document
    stories,            \* story id -> text of the story
    paragraphStyles,    \* names of doc.paragraphStyles
    command,            \* command.options.autoFlow and .startPage as passed
    content, styleMapping, autoFlow, startPage,      \* the options as the handler reads them
    currentPageIndex, pagesCreated, paragraphsPlaced,
    currentTextFrame, linkedFrames,
    i,                  \* loop index into content
    result,             \* the returned summary, <<>> before the return
    pagesBefore,        \* doc.pages.length when the handler was called
    trace,              \* what each processed block did, in order
    error,              \* the host error the handler threw, "" when none
    calls,              \* how many times the handler was called on the document
    rectangles,         \* every rectangle of the document
    reply               \* what the last single-shot command returned or threw

vars ==
    <<pc, pages, textFrames, stories, paragraphStyles,
      content, styleMapping, autoFlow, startPage,
      currentPageIndex, pagesCreated, paragraphsPlaced,
      currentTextFrame, linkedFrames, i, result, pagesBefore, trace,
      command, error, calls, rectangles, reply>>

\* what the single-shot commands of textframes.js and images.js leave behind
accessors == <<rectangles, reply>>

options == <<command, content, styleMapping, autoFlow, startPage>>

----------------------------------------------------------------------------
(* The host document: what the handler reads and calls *)

\* What the host's calls do during one step of the handler: TRUE where the
\* call throws. pagesAdd numbers the call of doc.pages.add() that throws (0:
\* none); fontStyle holds the runs whose character formatting throws.
Succeeds ==
    [pagesAdd |-> 0, textFramesAdd |-> FALSE, contents |-> FALSE,
     itemByName |-> FALSE, stylesAdd |-> FALSE, basicParagraph |-> FALSE,
     appliedParagraphStyle |-> FALSE, fontStyle |-> {}]

\* the story a frame shows; threaded frames share one story
ParentStory(frames, strs, f) == strs[frames[f].parentStory]

\* what the frames threaded on one story can show together
RECURSIVE ThreadCapacity(_, _, _)
ThreadCapacity(frames, story, k) ==
    IF k = 0 THEN 0
    ELSE ThreadCapacity(frames, story, k - 1)
         + (IF frames[k].parentStory = story THEN frames[k].capacity ELSE 0)

\* textFrame.overflows: the last frame of a thread whose story holds more
\* text than the thread can show
Overflows(frames, strs, f) ==
    /\ frames[f].nextTextFrame = NoFrame
    /\ Len(ParentStory(frames, strs, f))
         > ThreadCapacity(frames, frames[f].parentStory, Len(frames))

\* the text inserted at story.insertionPoints[0]
InsertAtStart(frames, strs, f, text) ==
    [strs EXCEPT ![frames[f].parentStory] = PlainText(text) \o @]

\* story.insertionPoints[-1].contents = text
InsertAtEnd(frames, strs, f, text) ==
    [strs EXCEPT ![frames[f].parentStory] = @ \o PlainText(text)]

\* a.nextTextFrame = b, b a fresh frame: b joins a's thread and shows the
\* rest of a's story; b's own empty story is gone
LinkFrames(frames, a, b) ==
    [frames EXCEPT ![a].nextTextFrame = b, ![b].parentStory = frames[a].parentStory]

LinkStories(frames, strs, a, b) ==
    [s \in (DOMAIN strs) \ {frames[b].parentStory} |-> strs[s]]

\* index (1-based) of the first character of story.paragraphs[-1]
RECURSIVE LastParagraphStart(_, _)
LastParagraphStart(story, k) ==
    IF k <= 1 THEN 1
    ELSE IF story[k - 1].ch = CR THEN k
    ELSE LastParagraphStart(story, k - 1)

\* story.paragraphs[-1].appliedParagraphStyle = style
ApplyParagraphStyle(story, style) ==
    LET first == LastParagraphStart(story, Len(story))
    IN  [k \in 1..Len(story) |->
            IF k >= first THEN [story[k] EXCEPT !.appliedParagraphStyle = style]
            ELSE story[k]]

----------------------------------------------------------------------------
(* layoutWordContent: the helpers it defines *)

\* getPageContentBounds reading the document's first page, whatever the index
getPageContentBoundsOfFirstPage(pgs, pageIndex) ==
    LET page == pgs[1]
        pageBounds == page.bounds
        margins == page.marginPreferences
    IN  [x |-> margins.left,
         y |-> margins.top,
         width |-> (pageBounds[4] - pageBounds[2]) - margins.left - margins.right,
         height |-> (pageBounds[3] - pageBounds[1]) - margins.top - margins.bottom]

getPageContentBounds(pgs, pageIndex) ==
    LET page == pgs[pageIndex + 1]
        pageBounds == page.bounds
        margins == page.marginPreferences
    IN  [x |-> margins.left,
         y |-> margins.top,
         width |-> (pageBounds[4] - pageBounds[2]) - margins.left - margins.right,
         height |-> (pageBounds[3] - pageBounds[1]) - margins.top - margins.bottom]

\* ensurePage as a do-while: a page is added before the length is compared
ensurePageDoWhile(host, pgs, created, pageIndex) ==
    LET added == Max(1, pageIndex + 1 - Len(pgs))
    IN  [pages |-> pgs \o [k \in 1..added |-> NewPage],
         pagesCreated |-> created + added, error |-> ""]

\* ensurePage without the counter
ensurePageUncounted(host, pgs, created, pageIndex) ==
    [pages |-> pgs \o [k \in 1..(pageIndex + 1 - Len(pgs)) |-> NewPage],
     pagesCreated |-> created, error |-> ""]

\* while (doc.pages.length <= pageIndex) { doc.pages.add(); pagesCreated++ }
RECURSIVE ensurePage(_, _, _, _)
ensurePage(host, pgs, created, pageIndex) ==
    IF Len(pgs) <= pageIndex
    THEN IF host.pagesAdd = 1
         THEN [pages |-> pgs, pagesCreated |-> created, error |-> "pages.add"]
         ELSE ensurePage([host EXCEPT !.pagesAdd = Max(0, @ - 1)],
                         Append(pgs, NewPage), created + 1, pageIndex)
    ELSE [pages |-> pgs, pagesCreated |-> created, error |-> ""]

\* cap: the capacity the host gives the frame it creates
getOrCreateTextFrame(host, pgs, created, frames, strs, pageIndex, cap) ==
    LET ensured == ensurePage(host, pgs, created, pageIndex)
        bounds == getPageContentBounds(ensured.pages, pageIndex)
        id == Len(frames) + 1
        textFrame ==
            [page |-> pageIndex,
             geometricBounds |->
                 <<bounds.y, bounds.x, bounds.y + bounds.height, bounds.x + bounds.width>>,
             nextTextFrame |-> NoFrame,
             parentStory |-> id,
             capacity |-> cap]
    IN  IF ensured.error # "" \/ host.textFramesAdd
        THEN [pages |-> ensured.pages,
              pagesCreated |-> ensured.pagesCreated,
              textFrames |-> frames,
              stories |-> strs,
              textFrame |-> NoFrame,
              error |-> IF ensured.error # "" THEN ensured.error ELSE "textFrames.add"]
        ELSE [pages |-> ensured.pages,
              pagesCreated |-> ensured.pagesCreated,
              textFrames |-> Append(frames, textFrame),
              stories |-> [s \in (DOMAIN strs) \cup {id} |->
                              IF s = id THEN <<>> ELSE strs[s]],
              textFrame |-> id,
              error |-> ""]

indesignStyleName(mapping, wordStyleName) ==
    IF wordStyleName \in DOMAIN mapping /\ mapping[wordStyleName] # ""
    THEN mapping[wordStyleName]
    ELSE wordStyleName

\* doc.paragraphStyles.itemByName(name).isValid, inside the first try
StyleFound(host, styles, name) == ~host.itemByName /\ name \in styles

\* doc.paragraphStyles.add({ name }) throws: the host keeps style names
\* unique, so adding a name the document holds throws as well
StyleAddThrows(host, styles, name) == host.stylesAdd \/ name \in styles

\* getOrCreateStyle without the lookup of the existing style
getOrCreateStyleWithoutLookup(host, styles, mapping, wordStyleName) ==
    LET name == indesignStyleName(mapping, wordStyleName)
    IN  IF ~StyleAddThrows(host, styles, name)
        THEN [style |-> name, paragraphStyles |-> styles \cup {name},
              added |-> TRUE, error |-> "", threw |-> {}]
        ELSE IF host.basicParagraph
        THEN [style |-> "", paragraphStyles |-> styles,
              added |-> FALSE, error |-> "itemByName", threw |-> {"add", "basicParagraph"}]
        ELSE [style |-> BasicParagraph, paragraphStyles |-> styles,
              added |-> FALSE, error |-> "", threw |-> {"add"}]

\* style: the name of the style returned; added: the call added a style to
\* the document; threw: the host calls that threw during the call;
\* error: what the call threw to its caller
getOrCreateStyle(host, styles, mapping, wordStyleName) ==
    LET name == indesignStyleName(mapping, wordStyleName)
        lookup == IF host.itemByName THEN {"itemByName"} ELSE {}
    IN  IF StyleFound(host, styles, name)
        THEN [style |-> name, paragraphStyles |-> styles,
              added |-> FALSE, error |-> "", threw |-> {}]
        ELSE IF ~StyleAddThrows(host, styles, name)
        THEN [style |-> name, paragraphStyles |-> styles \cup {name},
              added |-> TRUE, error |-> "", threw |-> lookup]
        ELSE IF host.basicParagraph
        THEN [style |-> "", paragraphStyles |-> styles,
              added |-> FALSE, error |-> "itemByName",
              threw |-> lookup \cup {"add", "basicParagraph"}]
        ELSE [style |-> BasicParagraph, paragraphStyles |-> styles,
              added |-> FALSE, error |-> "", threw |-> lookup \cup {"add"}]

----------------------------------------------------------------------------
(* layoutWordContent: the paragraph branch *)

RECURSIVE ConcatRuns(_, _)
ConcatRuns(runs, k) ==
    IF k = 0 THEN <<>> ELSE ConcatRuns(runs, k - 1) \o runs[k].text

\* paragraphText with the else branch (the continue) taken for no block
paragraphTextNeverSkipped(block) ==
    LET text == ConcatRuns(block.runs, Len(block.runs))
    IN  IF Len(text) > 0 THEN Append(text, CR) ELSE <<CR>>

\* paragraphText with the terminator of a non-empty paragraph left out
paragraphTextUnterminated(block) ==
    LET text == ConcatRuns(block.runs, Len(block.runs))
    IN  IF Len(text) > 0 THEN text
        ELSE IF block.style # "" THEN <<CR>>
        ELSE <<>>

\* <<>> stands for the skipped block (the continue)
paragraphText(block) ==
    LET text == ConcatRuns(block.runs, Len(block.runs))
    IN  IF Len(text) > 0 THEN Append(text, CR)
        ELSE IF block.style # "" THEN <<CR>>
        ELSE <<>>

FormatChar(char, formatting) ==
    LET afterBold ==
            IF formatting.bold THEN [char EXCEPT !.fontStyle = "Bold"] ELSE char
        afterItalic ==
            IF formatting.italic
            THEN [afterBold EXCEPT !.fontStyle =
                      IF formatting.bold THEN "Bold Italic" ELSE "Italic"]
            ELSE afterBold
    IN  IF formatting.underline THEN [afterItalic EXCEPT !.underline = TRUE]
        ELSE afterItalic

\* the loop over c: characters charIndex .. charIndex + runLength - 1 (0-based),
\* stopping at the end of the story
FormatRange(story, charIndex, runLength, formatting) ==
    [k \in 1..Len(story) |->
        IF k - 1 >= charIndex /\ k - 1 < charIndex + runLength
        THEN FormatChar(story[k], formatting)
        ELSE story[k]]

\* where charIndex stands after a run
NextCharIndex(run, charIndex) ==
    IF Len(run.text) > 0 /\ run.formatting # NoFormatting
    THEN charIndex + Len(run.text)
    ELSE charIndex

\* the loop over block.runs from run k on; ranges lists, per formatted run,
\* the half-open 0-based character range its loop goes over and whether the
\* host threw there (caught: the run's characters stay as they were)
RECURSIVE FormatRuns(_, _, _, _, _, _)
FormatRuns(host, story, runs, k, charIndex, ranges) ==
    IF k > Len(runs) THEN [story |-> story, ranges |-> ranges]
    ELSE LET run == runs[k]
             threw == k \in host.fontStyle
         IN  IF Len(run.text) > 0 /\ run.formatting # NoFormatting
             THEN FormatRuns(host,
                      IF threw THEN story
                      ELSE FormatRange(story, charIndex, Len(run.text), run.formatting[1]),
                      runs, k + 1, NextCharIndex(run, charIndex),
                      Append(ranges,
                             [run |-> k, from |-> charIndex,
                              to |-> Min(charIndex + Len(run.text), Len(story)),
                              threw |-> threw]))
             ELSE FormatRuns(host, story, runs, k + 1, NextCharIndex(run, charIndex), ranges)

----------------------------------------------------------------------------
(* layoutWordContent: the loop body, as functions of the state it acts on *)

\* the document and the handler's local variables
State ==
    [pages |-> pages, textFrames |-> textFrames, stories |-> stories,
     paragraphStyles |-> paragraphStyles,
     currentPageIndex |-> currentPageIndex, pagesCreated |-> pagesCreated,
     paragraphsPlaced |-> paragraphsPlaced,
     currentTextFrame |-> currentTextFrame, linkedFrames |-> linkedFrames,
     trace |-> trace, error |-> error, host |-> Succeeds, threw |-> {}]

\* an exception left the handler
Thrown(st) == st.error # ""

CurrentStory(st) == st.textFrames[st.currentTextFrame].parentStory

\* what one iteration of the loop did: the host calls that threw during it
\* (caught by the handler or not), the frame and page that were current
\* when it began, the text it appended and where, the style it resolved, the
\* ranges it formatted, and what the frame's overflows flag was after it
Step(kind, index, before, text, style, ranges, after) ==
    [kind |-> kind, index |-> index, threw |-> after.threw,
     frame |-> before.currentTextFrame, page |-> before.currentPageIndex,
     frames |-> Len(before.textFrames),
     startIndex |-> Len(before.stories[CurrentStory(before)]),
     text |-> text, style |-> style, ranges |-> ranges,
     overflows |-> Overflows(before.textFrames, after.stories, before.currentTextFrame),
     advanced |-> after.currentTextFrame # before.currentTextFrame]

\* insertContents inside a try block whose catch does nothing
insertContentsCaught(st, text) ==
    IF st.host.contents THEN [st EXCEPT !.threw = @ \cup {"contents"}]
    ELSE [st EXCEPT !.stories =
              InsertAtEnd(st.textFrames, st.stories, st.currentTextFrame, text)]

\* insertionPoint.contents = text on the current frame's story
insertContents(st, text) ==
    IF st.host.contents THEN [st EXCEPT !.error = "contents", !.threw = @ \cup {"contents"}]
    ELSE [st EXCEPT !.stories =
              InsertAtEnd(st.textFrames, st.stories, st.currentTextFrame, text)]

\* applyStyle with the source style name used unmapped
applyStyleUnmapped(st, mapping, block) ==
    IF block.style # ""
    THEN LET resolved == getOrCreateStyle(st.host, st.paragraphStyles,
                                          [n \in {} |-> ""], block.style)
         IN  IF resolved.error # ""
             THEN [st EXCEPT !.error = resolved.error,
                             !.threw = @ \cup resolved.threw]
             ELSE IF st.host.appliedParagraphStyle
             THEN [st EXCEPT !.paragraphStyles = resolved.paragraphStyles,
                             !.threw = @ \cup resolved.threw
                                          \cup {"appliedParagraphStyle"}]
             ELSE [st EXCEPT !.paragraphStyles = resolved.paragraphStyles,
                             !.threw = @ \cup resolved.threw,
                             !.stories[CurrentStory(st)] =
                                 ApplyParagraphStyle(@, resolved.style)]
    ELSE st

\* if (block.style) { ... lastPara.appliedParagraphStyle = style }: the call
\* of getOrCreateStyle stands before the try, the assignment inside it
applyStyle(st, mapping, block) ==
    IF block.style # ""
    THEN LET resolved == getOrCreateStyle(st.host, st.paragraphStyles, mapping, block.style)
         IN  IF resolved.error # ""
             THEN [st EXCEPT !.error = resolved.error,
                             !.threw = @ \cup resolved.threw]
             ELSE IF st.host.appliedParagraphStyle
             THEN [st EXCEPT !.paragraphStyles = resolved.paragraphStyles,
                             !.threw = @ \cup resolved.threw
                                          \cup {"appliedParagraphStyle"}]
             ELSE [st EXCEPT !.paragraphStyles = resolved.paragraphStyles,
                             !.threw = @ \cup resolved.threw,
                             !.stories[CurrentStory(st)] =
                                 ApplyParagraphStyle(@, resolved.style)]
    ELSE st

\* if (block.runs && block.runs.length > 0) { ... }
applyRunFormatting(st, block, startIndex) ==
    [st EXCEPT !.stories[CurrentStory(st)] =
                   FormatRuns(st.host, @, block.runs, 1, startIndex, <<>>).story]

\* advance with the line currentTextFrame.nextTextFrame = newFrame left out
advanceWithoutLink(st, cap) ==
    LET newPageIndex == st.currentPageIndex + 1
        made == getOrCreateTextFrame(st.host, st.pages, st.pagesCreated, st.textFrames,
                                     st.stories, newPageIndex, cap)
        newFrame == made.textFrame
    IN  IF made.error # ""
        THEN [st EXCEPT !.pages = made.pages,
                        !.pagesCreated = made.pagesCreated,
                        !.currentPageIndex = newPageIndex,
                        !.error = made.error,
                        !.threw = @ \cup {made.error}]
        ELSE
        [st EXCEPT !.pages = made.pages,
                   !.pagesCreated = made.pagesCreated,
                   !.textFrames = made.textFrames,
                   !.stories = made.stories,
                   !.currentPageIndex = newPageIndex,
                   !.linkedFrames = Append(st.linkedFrames, newFrame),
                   !.currentTextFrame = newFrame]

\* advance with the line linkedFrames.push(newFrame) left out
advanceWithoutPush(st, cap) ==
    LET newPageIndex == st.currentPageIndex + 1
        made == getOrCreateTextFrame(st.host, st.pages, st.pagesCreated, st.textFrames,
                                     st.stories, newPageIndex, cap)
        newFrame == made.textFrame
    IN  IF made.error # ""
        THEN [st EXCEPT !.pages = made.pages,
                        !.pagesCreated = made.pagesCreated,
                        !.currentPageIndex = newPageIndex,
                        !.error = made.error,
                        !.threw = @ \cup {made.error}]
        ELSE
        [st EXCEPT !.pages = made.pages,
                   !.pagesCreated = made.pagesCreated,
                   !.textFrames = LinkFrames(made.textFrames, st.currentTextFrame, newFrame),
                   !.stories = LinkStories(made.textFrames, made.stories,
                                           st.currentTextFrame, newFrame),
                   !.currentPageIndex = newPageIndex,
                   !.currentTextFrame = newFrame]

\* advance with the line currentTextFrame = newFrame left out
advanceKeepingCurrent(st, cap) ==
    LET newPageIndex == st.currentPageIndex + 1
        made == getOrCreateTextFrame(st.host, st.pages, st.pagesCreated, st.textFrames,
                                     st.stories, newPageIndex, cap)
        newFrame == made.textFrame
    IN  IF made.error # ""
        THEN [st EXCEPT !.pages = made.pages,
                        !.pagesCreated = made.pagesCreated,
                        !.currentPageIndex = newPageIndex,
                        !.error = made.error,
                        !.threw = @ \cup {made.error}]
        ELSE
        [st EXCEPT !.pages = made.pages,
                   !.pagesCreated = made.pagesCreated,
                   !.textFrames = LinkFrames(made.textFrames, st.currentTextFrame, newFrame),
                   !.stories = LinkStories(made.textFrames, made.stories,
                                           st.currentTextFrame, newFrame),
                   !.currentPageIndex = newPageIndex,
                   !.linkedFrames = Append(st.linkedFrames, newFrame)]

\* advance with the chain's first frame linked to the new one
advanceRelinkingHead(st, cap) ==
    LET newPageIndex == st.currentPageIndex + 1
        made == getOrCreateTextFrame(st.host, st.pages, st.pagesCreated, st.textFrames,
                                     st.stories, newPageIndex, cap)
        newFrame == made.textFrame
    IN  [st EXCEPT !.pages = made.pages,
                   !.pagesCreated = made.pagesCreated,
                   !.textFrames = LinkFrames(made.textFrames, st.linkedFrames[1], newFrame),
                   !.stories = LinkStories(made.textFrames, made.stories,
                                           st.linkedFrames[1], newFrame),
                   !.currentPageIndex = newPageIndex,
                   !.linkedFrames = Append(st.linkedFrames, newFrame),
                   !.currentTextFrame = newFrame]

\* advance with currentPageIndex = 0 in place of currentPageIndex++
advanceToFirstPage(st, cap) ==
    LET newPageIndex == 0
        made == getOrCreateTextFrame(st.host, st.pages, st.pagesCreated, st.textFrames,
                                     st.stories, newPageIndex, cap)
        newFrame == made.textFrame
    IN  [st EXCEPT !.pages = made.pages,
                   !.pagesCreated = made.pagesCreated,
                   !.textFrames = LinkFrames(made.textFrames, st.currentTextFrame, newFrame),
                   !.stories = LinkStories(made.textFrames, made.stories,
                                           st.currentTextFrame, newFrame),
                   !.currentPageIndex = newPageIndex,
                   !.linkedFrames = Append(st.linkedFrames, newFrame),
                   !.currentTextFrame = newFrame]

\* currentPageIndex++ ... currentTextFrame = newFrame
advance(st, cap) ==
    LET newPageIndex == st.currentPageIndex + 1
        made == getOrCreateTextFrame(st.host, st.pages, st.pagesCreated, st.textFrames,
                                     st.stories, newPageIndex, cap)
        newFrame == made.textFrame
    IN  IF made.error # ""
        THEN [st EXCEPT !.pages = made.pages,
                        !.pagesCreated = made.pagesCreated,
                        !.currentPageIndex = newPageIndex,
                        !.error = made.error,
                        !.threw = @ \cup {made.error}]
        ELSE
        [st EXCEPT !.pages = made.pages,
                   !.pagesCreated = made.pagesCreated,
                   !.textFrames = LinkFrames(made.textFrames, st.currentTextFrame, newFrame),
                   !.stories = LinkStories(made.textFrames, made.stories,
                                           st.currentTextFrame, newFrame),
                   !.currentPageIndex = newPageIndex,
                   !.linkedFrames = Append(st.linkedFrames, newFrame),
                   !.currentTextFrame = newFrame]

\* overflowCheck with currentPageIndex++ standing outside the if
overflowCheckCountingEveryParagraph(st, flow, cap) ==
    IF flow /\ Overflows(st.textFrames, st.stories, st.currentTextFrame)
    THEN advance(st, cap)
    ELSE [st EXCEPT !.currentPageIndex = @ + 1]

\* overflowCheck with a while in place of the if: it advances until the new
\* container no longer overflows (twice at most here)
overflowCheckUntilFits(st, flow, cap) ==
    IF flow /\ Overflows(st.textFrames, st.stories, st.currentTextFrame)
    THEN LET once == advance(st, cap)
         IN  IF Overflows(once.textFrames, once.stories, once.currentTextFrame)
             THEN advance(once, cap)
             ELSE once
    ELSE st

\* overflowCheck that advances only when another block follows
overflowCheckIfMoreBlocks(st, flow, cap) ==
    IF flow /\ Overflows(st.textFrames, st.stories, st.currentTextFrame)
            /\ i + 1 < Len(content)
    THEN advance(st, cap)
    ELSE st

\* if (autoFlow && currentTextFrame.overflows) { ... }
overflowCheck(st, flow, cap) ==
    IF flow /\ Overflows(st.textFrames, st.stories, st.currentTextFrame)
    THEN advance(st, cap)
    ELSE st

\* the branch block.type === "paragraph"
paragraphBranch(st, mapping, flow, block, index, cap) ==
    LET text == paragraphText(block)
    IN  IF text = <<>>
        THEN [st EXCEPT !.trace = Append(@, Step("skip", index, st, <<>>, "", <<>>, st))]
        ELSE LET startIndex == Len(st.stories[CurrentStory(st)])
                 inserted == insertContents(st, text)
                 styled == IF Thrown(inserted) THEN inserted
                           ELSE applyStyle(inserted, mapping, block)
                 formatted == IF Thrown(styled) THEN styled
                              ELSE applyRunFormatting(styled, block, startIndex)
                 counted == IF Thrown(formatted) THEN formatted
                            ELSE [formatted EXCEPT !.paragraphsPlaced = @ + 1]
                 checked == IF Thrown(counted) THEN counted
                            ELSE overflowCheck(counted, flow, cap)
             IN  [checked EXCEPT !.trace =
                     Append(@, Step(IF Thrown(checked) THEN "thrown" ELSE "paragraph",
                                    index, st, text,
                                    IF block.style # ""
                                    THEN indesignStyleName(mapping, block.style)
                                    ELSE "",
                                    IF Thrown(styled) THEN <<>>
                                    ELSE FormatRuns(st.host, styled.stories[CurrentStory(st)],
                                                    block.runs, 1, startIndex, <<>>).ranges,
                                    checked))]

RECURSIVE cellContent(_, _)
cellContent(cell, k) ==
    IF k = 0 THEN <<>>
    ELSE cellContent(cell, k - 1) \o ConcatRuns(cell[k].runs, Len(cell[k].runs))

\* cellTexts.join("\t") over the first k cells of the row
RECURSIVE JoinCells(_, _)
JoinCells(row, k) ==
    IF k = 0 THEN <<>>
    ELSE IF k = 1 THEN cellContent(row[1], Len(row[1]))
    ELSE JoinCells(row, k - 1) \o <<TAB>> \o cellContent(row[k], Len(row[k]))

\* tableText with the rows joined by the terminator, none after the last row
RECURSIVE tableTextJoined(_, _)
tableTextJoined(rows, k) ==
    IF k = 0 THEN <<>>
    ELSE IF k = 1 THEN JoinCells(rows[1], Len(rows[1]))
    ELSE tableTextJoined(rows, k - 1) \o <<CR>> \o JoinCells(rows[k], Len(rows[k]))

RECURSIVE tableText(_, _)
tableText(rows, k) ==
    IF k = 0 THEN <<>>
    ELSE tableText(rows, k - 1) \o JoinCells(rows[k], Len(rows[k])) \o <<CR>>

\* placeTable with the line paragraphsPlaced++ left out
placeTableUncounted(st, text) ==
    IF text # <<>> THEN insertContents(st, text) ELSE st

\* if (tableText) { ... paragraphsPlaced++ }
placeTable(st, text) ==
    IF text # <<>>
    THEN LET inserted == insertContents(st, text)
         IN  IF Thrown(inserted) THEN inserted
             ELSE [inserted EXCEPT !.paragraphsPlaced = @ + 1]
    ELSE st

\* tableBranch followed by the overflow check of the paragraph branch
tableBranchWithOverflowCheck(st, block, index) ==
    LET text == tableText(block.rows, Len(block.rows))
        placed == placeTable(st, text)
        checked == overflowCheck(placed, TRUE, CHOOSE cap \in Capacities : TRUE)
    IN  [checked EXCEPT !.trace = Append(@, Step("table", index, st, text, "", <<>>, checked))]

\* the branch block.type === "table"
tableBranch(st, block, index) ==
    LET text == tableText(block.rows, Len(block.rows))
        placed == placeTable(st, text)
    IN  [placed EXCEPT !.trace =
             Append(@, Step(IF Thrown(placed) THEN "thrown" ELSE "table",
                            index, st, text, "", <<>>, placed))]

----------------------------------------------------------------------------
(* Behaviour *)

\* no single-shot command has answered yet
NoReply == [command |-> "none", options |-> <<>>, threw |-> "", host |-> "", value |-> <<>>]

Init ==
    /\ pc = "idle"
    /\ pages \in {InitialPages(n) : n \in 1..MaxInitialPages}
    /\ textFrames = <<>>
    /\ stories = <<>>
    /\ paragraphStyles = {BasicParagraph, "Body Text"}
    /\ content = <<>>
    /\ styleMapping = NoMapping
    /\ autoFlow = TRUE
    /\ startPage = 0
    /\ currentPageIndex = 0
    /\ pagesCreated = 0
    /\ paragraphsPlaced = 0
    /\ currentTextFrame = NoFrame
    /\ linkedFrames = <<>>
    /\ i = 0
    /\ result = <<>>
    /\ pagesBefore = 0
    /\ trace = <<>>
    /\ command = [autoFlow |-> Absent, startPage |-> Absent]
    /\ error = ""
    /\ calls = 0
    /\ rectangles = <<>>
    /\ reply = NoReply

\* the state the action leaves is st
Becomes(st) ==
    /\ pages' = st.pages
    /\ textFrames' = st.textFrames
    /\ stories' = st.stories
    /\ paragraphStyles' = st.paragraphStyles
    /\ currentPageIndex' = st.currentPageIndex
    /\ pagesCreated' = st.pagesCreated
    /\ paragraphsPlaced' = st.paragraphsPlaced
    /\ currentTextFrame' = st.currentTextFrame
    /\ linkedFrames' = st.linkedFrames
    /\ trace' = st.trace
    /\ error' = st.error

\* autoFlow read as options.autoFlow === true
autoFlowOptionStrict(o) == o # Absent /\ o[1] = TRUE

\* const autoFlow = options.autoFlow !== false
autoFlowOption(o) == o = Absent \/ o[1] # FALSE

\* const startPage = options.startPage || 0
startPageOption(o) == IF o = Absent \/ o[1] = 0 THEN 0 ELSE o[1]

\* the options of the first call: left out, or set to another value than
\* the one the handler reads for a missing option
AutoFlowOptions == {Absent, <<FALSE>>}

StartPageOptions == {Absent} \cup {<<n>> : n \in 1..MaxStartPage}

\* initialFrame with the counters kept from the call before
initialFrameKeepingCounters(st, sp, cap) ==
    LET first == getOrCreateTextFrame(st.host, st.pages, st.pagesCreated, st.textFrames,
                                      st.stories, sp, cap)
        locals == [st EXCEPT !.pages = first.pages,
                             !.pagesCreated = first.pagesCreated,
                             !.currentPageIndex = sp,
                             !.currentTextFrame = NoFrame,
                             !.linkedFrames = <<>>,
                             !.trace = <<>>,
                             !.error = first.error]
    IN  IF first.error # "" THEN locals
        ELSE [locals EXCEPT !.textFrames = first.textFrames,
                            !.stories = first.stories,
                            !.currentTextFrame = first.textFrame,
                            !.linkedFrames = <<first.textFrame>>]

\* let currentPageIndex = startPage ... linkedFrames.push(currentTextFrame)
initialFrame(st, sp, cap) ==
    LET first == getOrCreateTextFrame(st.host, st.pages, 0, st.textFrames, st.stories, sp, cap)
        locals == [st EXCEPT !.pages = first.pages,
                             !.pagesCreated = first.pagesCreated,
                             !.paragraphsPlaced = 0,
                             !.currentPageIndex = sp,
                             !.currentTextFrame = NoFrame,
                             !.linkedFrames = <<>>,
                             !.trace = <<>>,
                             !.error = first.error]
    IN  IF first.error # "" THEN locals
        ELSE [locals EXCEPT !.textFrames = first.textFrames,
                            !.stories = first.stories,
                            !.currentTextFrame = first.textFrame,
                            !.linkedFrames = <<first.textFrame>>]

\* the call of layoutWordContent up to the loop: options, counters and the
\* initial text frame. cs, flows, starts: the options the caller may pass;
\* hs: what the host may do during the call
Invoke(cs, flows, starts, hs) ==
    /\ \E c \in cs, m \in StyleMappings, a \in flows, s \in starts,
          cap \in Capacities, h \in hs :
          LET first == initialFrame([State EXCEPT !.host = h, !.error = ""],
                                    startPageOption(s), cap)
          IN  /\ command' = [autoFlow |-> a, startPage |-> s]
              /\ content' = c
              /\ styleMapping' = m
              /\ autoFlow' = autoFlowOption(a)
              /\ startPage' = startPageOption(s)
              /\ Becomes(first)
              /\ pc' = IF Thrown(first) THEN "failed" ELSE "flowing"
    /\ pagesBefore' = Len(pages)
    /\ i' = 0
    /\ result' = <<>>
    /\ calls' = calls + 1
    /\ UNCHANGED accessors

\* the first call on the document, the host doing what it is asked
Start ==
    /\ pc = "idle"
    /\ Invoke(Contents, AutoFlowOptions, StartPageOptions, {Succeeds})

\* one iteration of the loop on a paragraph block; a throw leaves the loop
ParagraphIteration(hs) ==
    /\ i < Len(content)
    /\ content[i + 1].type = "paragraph"
    /\ \E cap \in Capacities, h \in hs :
          LET next == paragraphBranch([State EXCEPT !.host = h], styleMapping, autoFlow,
                                      content[i + 1], i, cap)
          IN  /\ Becomes(next)
              /\ pc' = IF Thrown(next) THEN "failed" ELSE pc
              /\ i' = IF Thrown(next) THEN i ELSE i + 1
    /\ UNCHANGED <<options, result, pagesBefore, calls, accessors>>

ProcessParagraph ==
    /\ pc = "flowing"
    /\ ParagraphIteration({Succeeds})

\* one iteration of the loop on a table block; a throw leaves the loop
TableIteration(hs) ==
    /\ i < Len(content)
    /\ content[i + 1].type = "table"
    /\ \E h \in hs :
          LET next == tableBranch([State EXCEPT !.host = h], content[i + 1], i)
          IN  /\ Becomes(next)
              /\ pc' = IF Thrown(next) THEN "failed" ELSE pc
              /\ i' = IF Thrown(next) THEN i ELSE i + 1
    /\ UNCHANGED <<options, result, pagesBefore, calls, accessors>>

ProcessTable ==
    /\ pc = "flowing"
    /\ TableIteration({Succeeds})

\* the summary the handler returns
summary(st, sp) ==
    [pagesCreated |-> st.pagesCreated,
     paragraphsPlaced |-> st.paragraphsPlaced,
     framesCreated |-> Len(st.linkedFrames),
     startPage |-> sp,
     endPage |-> st.currentPageIndex]

\* the return once the loop is over
Return ==
    /\ pc = "flowing"
    /\ i >= Len(content)
    /\ result' = << summary(State, startPage) >>
    /\ pc' = "done"
    /\ UNCHANGED <<pages, textFrames, stories, paragraphStyles, options,
                   currentPageIndex, pagesCreated, paragraphsPlaced,
                   currentTextFrame, linkedFrames, i, pagesBefore, trace,
                   error, calls, accessors>>

Next == Start \/ ProcessParagraph \/ ProcessTable \/ Return

Spec == Init /\ [][Next]_vars

\* The handler called again on the document the earlier call left
RunContents == {<<Hello, EmptyStyled>>, <<AllFormatted, OneRowTable>>}

StartAgain ==
    /\ pc \in {"idle", "done"}
    /\ calls < MaxCalls
    /\ Invoke(RunContents, {<<TRUE>>}, {<<0>>, <<1>>}, {Succeeds})

NextRuns == StartAgain \/ ProcessParagraph \/ ProcessTable \/ Return

SpecRuns == Init /\ [][NextRuns]_vars

\* The handler on a host whose calls may throw
\* the style and formatting calls throw in any combination
StyleOutcomes ==
    [pagesAdd : {0}, textFramesAdd : {FALSE}, contents : {FALSE},
     itemByName : BOOLEAN, stylesAdd : BOOLEAN, basicParagraph : BOOLEAN,
     appliedParagraphStyle : BOOLEAN, fontStyle : SUBSET (1..2)]

\* the text append throws
AppendOutcomes == {Succeeds, [Succeeds EXCEPT !.contents = TRUE]}

\* the first or second page creation throws, or the frame creation
FrameOutcomes ==
    {[Succeeds EXCEPT !.pagesAdd = n] : n \in 0..2}
    \cup {[Succeeds EXCEPT !.textFramesAdd = TRUE]}

\* what the host may do during a paragraph block: the calls of the block in
\* the order the handler makes them
HostOutcomes ==
    AppendOutcomes
    \cup {[h EXCEPT !.pagesAdd = f.pagesAdd, !.textFramesAdd = f.textFramesAdd] :
             h \in StyleOutcomes, f \in FrameOutcomes}

FaultContents == {<<PlainThenFormatted, Hello>>, <<Hello, OneRowTable>>}

StartFaulty ==
    /\ pc = "idle"
    /\ Invoke(FaultContents, AutoFlowOptions, StartPageOptions, FrameOutcomes)

ProcessParagraphFaulty ==
    /\ pc = "flowing"
    /\ ParagraphIteration(HostOutcomes)

ProcessTableFaulty ==
    /\ pc = "flowing"
    /\ TableIteration(AppendOutcomes)

NextFail == StartFaulty \/ ProcessParagraphFaulty \/ ProcessTableFaulty \/ Return

SpecFail == Init /\ [][NextFail]_vars

----------------------------------------------------------------------------
(* The single-shot commands of textframes.js and images.js: the host *)

NoPage == -1

\* doc.pages[index], doc.pages.item(index): the host counts a negative index
\* from the end of the collection, as in insertionPoints[-1]; NoPage when the
\* index denotes no page
PageAt(pgs, index) ==
    IF index \in 0..(Len(pgs) - 1) THEN index
    ELSE IF index \in (0 - Len(pgs))..(-1) THEN Len(pgs) + index
    ELSE NoPage

\* frame.previousTextFrame
PreviousFrame(frames, f) ==
    IF \E g \in DOMAIN frames : frames[g].nextTextFrame = f
    THEN CHOOSE g \in DOMAIN frames : frames[g].nextTextFrame = f
    ELSE NoFrame

\* how much of the story the frames before f in its thread show
RECURSIVE CapacityBefore(_, _)
CapacityBefore(frames, f) ==
    IF PreviousFrame(frames, f) = NoFrame THEN 0
    ELSE CapacityBefore(frames, PreviousFrame(frames, f))
         + frames[PreviousFrame(frames, f)].capacity

\* the part of its story frame f shows: characters first + 1 .. last
VisibleFirst(frames, strs, f) == Min(CapacityBefore(frames, f), Len(ParentStory(frames, strs, f)))

VisibleLast(frames, strs, f) ==
    Min(CapacityBefore(frames, f) + frames[f].capacity, Len(ParentStory(frames, strs, f)))

\* source.nextTextFrame = target: the host threads a frame that stands alone
\* after a frame that ends its thread, and the target's text joins the
\* source's story; it refuses any other pair
CanThread(frames, a, b) ==
    /\ a # b
    /\ frames[a].nextTextFrame = NoFrame
    /\ frames[b].nextTextFrame = NoFrame
    /\ PreviousFrame(frames, b) = NoFrame
    /\ frames[a].parentStory # frames[b].parentStory

ThreadStories(frames, strs, a, b) ==
    [s \in (DOMAIN strs) \ {frames[b].parentStory} |->
        IF s = frames[a].parentStory
        THEN strs[s] \o strs[frames[b].parentStory]
        ELSE strs[s]]

\* frame.id.toString()
FrameId(f) == ToString(f)

\* the ids of rectangles are not those of text frames
RectangleId(r) == "r" \o ToString(r)

----------------------------------------------------------------------------
(* The single-shot commands: what they answer *)

\* return value
Returned(name, o, value) ==
    [command |-> name, options |-> o, threw |-> "", host |-> "", value |-> value]

\* throw new Error(message), after the host call named by host threw (""
\* when the command throws on its own)
Threw(name, o, message, host) ==
    [command |-> name, options |-> o, threw |-> message, host |-> host, value |-> <<>>]

----------------------------------------------------------------------------
(* textframes.js *)

TextFrameCalled(frames, strs, styles, answer) ==
    [textFrames |-> frames, stories |-> strs, paragraphStyles |-> styles,
     reply |-> answer]

\* textFrame.contents = text: the text the frame shows is replaced
ReplaceContents(frames, strs, f, text) ==
    LET story == ParentStory(frames, strs, f)
    IN  [strs EXCEPT ![frames[f].parentStory] =
            SubSeq(story, 1, VisibleFirst(frames, strs, f))
            \o PlainText(text)
            \o SubSeq(story, VisibleLast(frames, strs, f) + 1, Len(story))]

\* textFrame.insertionPoints[0].contents = text
InsertAtFrameStart(frames, strs, f, text) ==
    LET story == ParentStory(frames, strs, f)
    IN  [strs EXCEPT ![frames[f].parentStory] =
            SubSeq(story, 1, VisibleFirst(frames, strs, f))
            \o PlainText(text)
            \o SubSeq(story, VisibleFirst(frames, strs, f) + 1, Len(story))]

\* textFrame.insertionPoints[-1].contents = text
InsertAtFrameEnd(frames, strs, f, text) ==
    LET story == ParentStory(frames, strs, f)
    IN  [strs EXCEPT ![frames[f].parentStory] =
            SubSeq(story, 1, VisibleLast(frames, strs, f))
            \o PlainText(text)
            \o SubSeq(story, VisibleLast(frames, strs, f) + 1, Len(story))]

createTextFrame(pgs, frames, strs, styles, o, cap) ==
    LET page == PageAt(pgs, o.pageIndex)
        id == Len(frames) + 1
        textFrame ==
            [page |-> page,
             geometricBounds |-> <<o.y, o.x, o.y + o.height, o.x + o.width>>,
             nextTextFrame |-> NoFrame,
             parentStory |-> id,
             capacity |-> cap]
        contents ==
            IF o.content # Absent /\ o.content[1] # <<>>
            THEN PlainText(o.content[1])
            ELSE <<>>
    IN  IF o.pageIndex >= Len(pgs)
        THEN TextFrameCalled(frames, strs, styles,
                 Threw("createTextFrame", o, "Page index out of range", ""))
        ELSE IF page = NoPage
        THEN TextFrameCalled(frames, strs, styles,
                 Threw("createTextFrame", o, "TypeError", "page.textFrames"))
        ELSE TextFrameCalled(
                 Append(frames, textFrame),
                 [s \in (DOMAIN strs) \cup {id} |->
                     IF s = id THEN contents ELSE strs[s]],
                 styles,
                 Returned("createTextFrame", o,
                     [frameId |-> FrameId(id),
                      bounds |-> [x |-> o.x, y |-> o.y,
                                  width |-> o.width, height |-> o.height],
                      pageIndex |-> o.pageIndex]))

\* what processPage pushes for the frames 1..k that lie on the page
RECURSIVE processPage(_, _, _, _, _)
processPage(frames, strs, page, pageIndex, k) ==
    IF k = 0 THEN <<>>
    ELSE IF frames[k].page # page
    THEN processPage(frames, strs, page, pageIndex, k - 1)
    ELSE Append(processPage(frames, strs, page, pageIndex, k - 1),
             [id |-> FrameId(k),
              pageIndex |-> pageIndex,
              bounds |->
                  [y1 |-> frames[k].geometricBounds[1],
                   x1 |-> frames[k].geometricBounds[2],
                   y2 |-> frames[k].geometricBounds[3],
                   x2 |-> frames[k].geometricBounds[4],
                   width |-> frames[k].geometricBounds[4] - frames[k].geometricBounds[2],
                   height |-> frames[k].geometricBounds[3] - frames[k].geometricBounds[1]],
              contentLength |->
                  VisibleLast(frames, strs, k) - VisibleFirst(frames, strs, k),
              overflows |-> Overflows(frames, strs, k),
              hasNextFrame |-> frames[k].nextTextFrame # NoFrame,
              hasPreviousFrame |-> PreviousFrame(frames, k) # NoFrame])

\* the loop over the pages 0 .. n - 1
RECURSIVE processPages(_, _, _)
processPages(frames, strs, n) ==
    IF n = 0 THEN <<>>
    ELSE processPages(frames, strs, n - 1)
         \o processPage(frames, strs, n - 1, n - 1, Len(frames))

getTextFrames(pgs, frames, strs, styles, o) ==
    IF o.pageIndex # Absent
    THEN IF o.pageIndex[1] >= Len(pgs)
         THEN TextFrameCalled(frames, strs, styles,
                  Threw("getTextFrames", o, "Page index out of range", ""))
         ELSE IF PageAt(pgs, o.pageIndex[1]) = NoPage
         THEN TextFrameCalled(frames, strs, styles,
                  Threw("getTextFrames", o, "TypeError", "page.textFrames"))
         ELSE TextFrameCalled(frames, strs, styles,
                  Returned("getTextFrames", o,
                      processPage(frames, strs, PageAt(pgs, o.pageIndex[1]),
                                  o.pageIndex[1], Len(frames))))
    ELSE TextFrameCalled(frames, strs, styles,
             Returned("getTextFrames", o, processPages(frames, strs, Len(pgs))))

\* the search of every page for the frame whose id.toString() is the id
FindFrame(frames, id) ==
    IF \E f \in DOMAIN frames : FrameId(f) = id
    THEN CHOOSE f \in DOMAIN frames : FrameId(f) = id
    ELSE NoFrame

linkTextFrames(frames, strs, styles, o) ==
    LET sourceFrame == FindFrame(frames, o.sourceFrameId)
        targetFrame == FindFrame(frames, o.targetFrameId)
    IN  IF sourceFrame = NoFrame
        THEN TextFrameCalled(frames, strs, styles,
                 Threw("linkTextFrames", o, "Source frame not found", ""))
        ELSE IF targetFrame = NoFrame
        THEN TextFrameCalled(frames, strs, styles,
                 Threw("linkTextFrames", o, "Target frame not found", ""))
        ELSE IF ~CanThread(frames, sourceFrame, targetFrame)
        THEN TextFrameCalled(frames, strs, styles,
                 Threw("linkTextFrames", o, "host", "nextTextFrame"))
        ELSE TextFrameCalled(
                 LinkFrames(frames, sourceFrame, targetFrame),
                 ThreadStories(frames, strs, sourceFrame, targetFrame),
                 styles,
                 Returned("linkTextFrames", o,
                     [linked |-> TRUE,
                      sourceFrameId |-> o.sourceFrameId,
                      targetFrameId |-> o.targetFrameId]))

\* options.position || "END"
positionOption(o) == IF o = Absent \/ o[1] = "" THEN "END" ELSE o[1]

insertText(frames, strs, styles, o) ==
    LET textFrame == FindFrame(frames, o.frameId)
        position == positionOption(o.position)
        inserted ==
            IF position = "START" THEN InsertAtFrameStart(frames, strs, textFrame, o.text)
            ELSE IF position = "END" THEN InsertAtFrameEnd(frames, strs, textFrame, o.text)
            ELSE ReplaceContents(frames, strs, textFrame, o.text)
        story == ParentStory(frames, inserted, textFrame)
        styled ==
            IF /\ o.styleName # Absent
               /\ o.styleName[1] # ""
               /\ o.styleName[1] \in styles
               /\ story # <<>>
            THEN [inserted EXCEPT ![frames[textFrame].parentStory] =
                     ApplyParagraphStyle(story, o.styleName[1])]
            ELSE inserted
    IN  IF textFrame = NoFrame
        THEN TextFrameCalled(frames, strs, styles,
                 Threw("insertText", o, "Text frame not found", ""))
        ELSE IF position \notin {"START", "END", "REPLACE"}
        THEN TextFrameCalled(frames, strs, styles,
                 Threw("insertText", o, "Invalid position", ""))
        ELSE TextFrameCalled(frames, styled, styles,
                 Returned("insertText", o,
                     [inserted |-> TRUE,
                      frameId |-> o.frameId,
                      textLength |-> Len(o.text),
                      position |-> position]))

----------------------------------------------------------------------------
(* images.js *)

DefaultImageSize == 200

FitProportionally == 1718185072

FitFillProportionally == 1718185070

\* options.width || 200, options.height || 200
sizeOption(o) == IF o = Absent \/ o[1] = 0 THEN DefaultImageSize ELSE o[1]

\* the code the frame is fitted with: the entry of fitOptions when the option
\* names one, the proportional fit otherwise
fitCode(o) ==
    IF o # Absent /\ o[1] = "PROPORTIONALLY" THEN FitProportionally
    ELSE IF o # Absent /\ o[1] = "FILL_PROPORTIONALLY" THEN FitFillProportionally
    ELSE FitProportionally

\* what the host's calls on the image frame do: the call that throws, "" when
\* none does
ImageOutcomes == {"", "place", "fit"}

ImageCalled(rects, answer) == [rectangles |-> rects, reply |-> answer]

\* placeImage whose catch block throws without removing the frame
placeImageKeepingFrame(pgs, rects, o, outcome) ==
    LET page == PageAt(pgs, o.pageIndex)
        width == sizeOption(o.width)
        height == sizeOption(o.height)
        imageFrame ==
            [id |-> RectangleId(Len(rects) + 1),
             page |-> page,
             geometricBounds |-> <<o.y, o.x, o.y + height, o.x + width>>,
             image |-> Absent,
             fit |-> 0]
        added == Append(rects, imageFrame)
        placed == [added EXCEPT ![Len(added)].image = <<o.imagePath>>]
        fitted == [placed EXCEPT ![Len(placed)].fit = fitCode(o.fitOption)]
    IN  IF o.pageIndex >= Len(pgs)
        THEN ImageCalled(rects, Threw("placeImage", o, "Page index out of range", ""))
        ELSE IF page = NoPage
        THEN ImageCalled(rects, Threw("placeImage", o, "host", "page.rectangles"))
        ELSE IF outcome = "place"
        THEN ImageCalled(added, Threw("placeImage", o, "Failed to place image", "place"))
        ELSE IF outcome = "fit"
        THEN ImageCalled(placed, Threw("placeImage", o, "Failed to place image", "fit"))
        ELSE ImageCalled(fitted,
                 Returned("placeImage", o,
                     [frameId |-> imageFrame.id,
                      imagePath |-> o.imagePath,
                      bounds |-> [x |-> o.x, y |-> o.y,
                                  width |-> width, height |-> height],
                      pageIndex |-> o.pageIndex]))

\* imageFrame.remove(): the frame added last leaves the page
RemoveFrame(rects) == SubSeq(rects, 1, Len(rects) - 1)

placeImage(pgs, rects, o, outcome) ==
    LET page == PageAt(pgs, o.pageIndex)
        width == sizeOption(o.width)
        height == sizeOption(o.height)
        imageFrame ==
            [id |-> RectangleId(Len(rects) + 1),
             page |-> page,
             geometricBounds |-> <<o.y, o.x, o.y + height, o.x + width>>,
             image |-> Absent,
             fit |-> 0]
        added == Append(rects, imageFrame)
        placed == [added EXCEPT ![Len(added)].image = <<o.imagePath>>]
        fitted == [placed EXCEPT ![Len(placed)].fit = fitCode(o.fitOption)]
    IN  IF o.pageIndex >= Len(pgs)
        THEN ImageCalled(rects, Threw("placeImage", o, "Page index out of range", ""))
        ELSE IF page = NoPage
        THEN ImageCalled(rects, Threw("placeImage", o, "host", "page.rectangles"))
        ELSE IF outcome = "place"
        THEN ImageCalled(RemoveFrame(added),
                 Threw("placeImage", o, "Failed to place image", "place"))
        ELSE IF outcome = "fit"
        THEN ImageCalled(RemoveFrame(placed),
                 Threw("placeImage", o, "Failed to place image", "fit"))
        ELSE ImageCalled(fitted,
                 Returned("placeImage", o,
                     [frameId |-> imageFrame.id,
                      imagePath |-> o.imagePath,
                      bounds |-> [x |-> o.x, y |-> o.y,
                                  width |-> width, height |-> height],
                      pageIndex |-> o.pageIndex]))

----------------------------------------------------------------------------
(* The single-shot commands: behaviour *)

\* what layoutWordContent keeps between its steps
layout ==
    <<pc, options, currentPageIndex, pagesCreated, paragraphsPlaced,
      currentTextFrame, linkedFrames, i, result, pagesBefore, trace, error,
      calls>>

\* page indexes: below every page, the last page counted from the end, the
\* first page, past the last page
PageIndexes == {0 - MaxInitialPages - 1, -1, 0, MaxInitialPages}

FrameIds == {ToString(k) : k \in 1..MaxItems} \cup {"01"}

\* what a frame the command creates can show
FrameCapacities == {2}

CreateOptions ==
    {[pageIndex |-> p, x |-> 1, y |-> 2, width |-> 4, height |-> 3,
      content |-> IF p \in {0, MaxInitialPages} THEN << <<"H">> >> ELSE Absent] :
        p \in PageIndexes}

GetOptions ==
    {[pageIndex |-> p] : p \in {Absent} \cup {<<n>> : n \in PageIndexes \ {0}}}

LinkOptions ==
    {[sourceFrameId |-> a, targetFrameId |-> b] : a \in FrameIds, b \in FrameIds}

InsertOptions ==
    {[frameId |-> f, text |-> <<"x">>, position |-> ps[1], styleName |-> ps[2]] :
        f \in {FrameId(1), "01"},
        ps \in {<<Absent, Absent>>, <<<<"START">>, <<"Body Text">>>>,
                <<<<"REPLACE">>, <<"Missing">>>>, <<<<"MIDDLE">>, Absent>>}}

PlaceOptions ==
    {[imagePath |-> "a.png", pageIndex |-> p, x |-> 1, y |-> 2,
      width |-> IF p < 0 THEN Absent ELSE <<4>>, height |-> <<3>>,
      fitOption |-> IF p < 0 THEN Absent ELSE <<"FILL_PROPORTIONALLY">>] :
        p \in PageIndexes}

\* the items the pages hold
Items == Len(textFrames) + Len(rectangles)

\* the characters the stories hold
RECURSIVE TextHeld(_, _)
TextHeld(strs, ids) ==
    IF ids = {} THEN 0
    ELSE LET s == CHOOSE s \in ids : TRUE
         IN  Len(strs[s]) + TextHeld(strs, ids \ {s})

TextFrameAnswers(done) ==
    /\ textFrames' = done.textFrames
    /\ stories' = done.stories
    /\ reply' = done.reply
    /\ UNCHANGED <<pages, paragraphStyles, rectangles, layout>>

CreateTextFrame ==
    /\ pc = "idle"
    /\ Items < MaxItems
    /\ TextHeld(stories, DOMAIN stories) < MaxStoryLen
    /\ \E o \in CreateOptions, cap \in FrameCapacities :
           TextFrameAnswers(createTextFrame(pages, textFrames, stories, paragraphStyles, o, cap))

GetTextFrames ==
    /\ pc = "idle"
    /\ \E o \in GetOptions :
           TextFrameAnswers(getTextFrames(pages, textFrames, stories, paragraphStyles, o))

LinkTextFrames ==
    /\ pc = "idle"
    /\ \E o \in LinkOptions :
           TextFrameAnswers(linkTextFrames(textFrames, stories, paragraphStyles, o))

InsertText ==
    /\ pc = "idle"
    /\ TextHeld(stories, DOMAIN stories) < MaxStoryLen
    /\ \E o \in InsertOptions :
           TextFrameAnswers(insertText(textFrames, stories, paragraphStyles, o))

PlaceImage ==
    /\ pc = "idle"
    /\ Items < MaxItems
    /\ \E o \in PlaceOptions, outcome \in ImageOutcomes :
           LET done == placeImage(pages, rectangles, o, outcome)
           IN  /\ rectangles' = done.rectangles
               /\ reply' = done.reply
               /\ UNCHANGED <<pages, textFrames, stories, paragraphStyles, layout>>

NextCommands ==
    \/ CreateTextFrame
    \/ GetTextFrames
    \/ LinkTextFrames
    \/ InsertText
    \/ PlaceImage

SpecCommands == Init /\ [][NextCommands]_vars

----------------------------------------------------------------------------
(* Properties *)

\* a step of the loop that placed a paragraph block
PlacedParagraph ==
    /\ i' = i + 1
    /\ content[i + 1].type = "paragraph"
    /\ paragraphsPlaced' = paragraphsPlaced + 1

\* a step of the loop on a table block
TableStep ==
    /\ i' = i + 1
    /\ content[i + 1].type = "table"

LastStep == trace[Len(trace)]

\* C1: with autoFlow enabled, a step that places a paragraph block and leaves
\* the current container overflowing advances in that same step: the page
\* index grows by exactly 1, one new container is allocated on the new page
\* index, the former current container's successor is the new container, the
\* new container is appended at the end of the chain and becomes current.
C1_AdvanceInSameStep ==
    [][(PlacedParagraph /\ autoFlow
          /\ Overflows(textFrames, stories', currentTextFrame))
       => /\ currentPageIndex' = currentPageIndex + 1
          /\ Len(textFrames') = Len(textFrames) + 1
          /\ textFrames'[Len(textFrames')].page = currentPageIndex'
          /\ textFrames'[currentTextFrame].nextTextFrame = Len(textFrames')
          /\ \A f \in 1..Len(textFrames) :
                f # currentTextFrame => textFrames'[f] = textFrames[f]
          /\ linkedFrames' = Append(linkedFrames, Len(textFrames'))
          /\ currentTextFrame' = Len(textFrames')]_vars

C1_Witness ==
    /\ autoFlow
    /\ Len(trace) > 0
    /\ LastStep.kind = "paragraph"
    /\ LastStep.overflows
    /\ currentTextFrame # LastStep.frame

\* C2: with autoFlow enabled, once the current container overflows after a
\* placed paragraph block, no later paragraph block is appended while that
\* container is current, and the next placed paragraph block is appended while
\* a container allocated after it, on the next page index, is current.
C2_OverflowMonotonicity ==
    \A j, k \in DOMAIN trace :
        (/\ j < k
         /\ autoFlow
         /\ trace[j].kind = "paragraph"
         /\ trace[j].overflows
         /\ trace[k].kind = "paragraph")
        => /\ trace[k].frame # trace[j].frame
           /\ (\A m \in (j + 1)..(k - 1) : trace[m].kind # "paragraph")
                 => /\ trace[k].frame > trace[j].frames
                    /\ trace[k].page = trace[j].page + 1
                    /\ textFrames[trace[k].frame].page = trace[j].page + 1

C2_Witness ==
    /\ autoFlow
    /\ \E j, k \in DOMAIN trace :
          /\ j < k
          /\ trace[j].kind = "paragraph"
          /\ trace[j].overflows
          /\ trace[k].kind = "paragraph"
          /\ trace[k].page = trace[j].page + 1

\* C3: for every placed paragraph appended at story offset s, the range
\* formatted for each run with non-empty text and formatting starts at s plus
\* the lengths of all preceding runs and ends after the run's own length.
C3_RunOffsetsExact ==
    \A k \in DOMAIN trace :
        trace[k].kind = "paragraph"
        => LET runs == content[trace[k].index + 1].runs
               s == trace[k].startIndex
           IN  \A r \in DOMAIN runs :
                  (Len(runs[r].text) > 0 /\ runs[r].formatting # NoFormatting)
                  => \E g \in DOMAIN trace[k].ranges :
                        /\ trace[k].ranges[g].run = r
                        /\ trace[k].ranges[g].from = s + Len(ConcatRuns(runs, r - 1))
                        /\ trace[k].ranges[g].to = s + Len(ConcatRuns(runs, r))

\* the story the current container shows, and what a step appended to it
CurrentStoryId == textFrames[currentTextFrame].parentStory

Appended ==
    SubSeq(stories'[CurrentStoryId],
           Len(stories[CurrentStoryId]) + 1, Len(stories'[CurrentStoryId]))

EarlierText == SubSeq(stories'[CurrentStoryId], 1, Len(stories[CurrentStoryId]))

EarlierTextKept == EarlierText = stories[CurrentStoryId]

\* a paragraph block whose run texts are all empty
EmptyText(block) == \A r \in DOMAIN block.runs : block.runs[r].text = <<>>

\* C4: a paragraph block with empty concatenated run text and no style name is
\* skipped: no text is appended to any story, paragraphsPlaced is not
\* incremented, no style is resolved or created, and the page index, the
\* current container and the chain are unchanged.
C4_EmptyUnstyledSkipped ==
    [][(/\ i' = i + 1
        /\ content[i + 1].type = "paragraph"
        /\ EmptyText(content[i + 1])
        /\ content[i + 1].style = "")
       => UNCHANGED <<stories, paragraphsPlaced, paragraphStyles, currentPageIndex,
                      currentTextFrame, linkedFrames, textFrames, pages,
                      pagesCreated>>]_vars

C4_Witness ==
    /\ Len(trace) > 0
    /\ content[Len(trace)].type = "paragraph"
    /\ EmptyText(content[Len(trace)])
    /\ content[Len(trace)].style = ""
    /\ i = Len(trace)

\* the target style name of a source style name: the mapped name when the
\* map has the source name, the source name itself otherwise
TargetStyle(name) ==
    IF name \in DOMAIN styleMapping THEN styleMapping[name] ELSE name

\* C5: a paragraph block with empty text but a style name appends exactly one
\* paragraph terminator to the current story, carrying the resolved style, and
\* paragraphsPlaced grows by 1; a paragraph block with non-empty text appends
\* its run texts concatenated in order followed by exactly one terminator.
C5_StyledEmptyAndTerminator ==
    [][(i' = i + 1 /\ content[i + 1].type = "paragraph")
       => LET block == content[i + 1]
          IN  /\ (EmptyText(block) /\ block.style # "")
                    => /\ EarlierTextKept
                       /\ Chars(Appended) = <<CR>>
                       /\ Appended[1].appliedParagraphStyle = TargetStyle(block.style)
                       /\ TargetStyle(block.style) \in paragraphStyles'
                       /\ paragraphsPlaced' = paragraphsPlaced + 1
              /\ ~EmptyText(block)
                    => /\ Chars(EarlierText) = Chars(stories[CurrentStoryId])
                       /\ Chars(Appended)
                            = ConcatRuns(block.runs, Len(block.runs)) \o <<CR>>
                       /\ paragraphsPlaced' = paragraphsPlaced + 1]_vars

C5_Witness ==
    /\ Len(trace) = 2
    /\ content[2].type = "paragraph"
    /\ EmptyText(content[2])
    /\ content[2].style = "Normal"
    /\ ~EmptyText(content[1])
    /\ trace[1].kind = "paragraph"
    /\ trace[2].text = <<CR>>
    /\ paragraphsPlaced = 2

\* the flattening of a table as the claim words it: a cell is the texts of its
\* paragraphs' runs in order, a row its cells joined by a tab, a table its
\* rows, each followed by a paragraph terminator
RECURSIVE TextOfRuns(_)
TextOfRuns(runs) ==
    IF runs = <<>> THEN <<>> ELSE Head(runs).text \o TextOfRuns(Tail(runs))

RECURSIVE TextOfCell(_)
TextOfCell(cell) ==
    IF cell = <<>> THEN <<>> ELSE TextOfRuns(Head(cell).runs) \o TextOfCell(Tail(cell))

RECURSIVE TextOfRow(_)
TextOfRow(row) ==
    IF row = <<>> THEN <<>>
    ELSE IF Len(row) = 1 THEN TextOfCell(row[1])
    ELSE TextOfCell(Head(row)) \o <<"\t">> \o TextOfRow(Tail(row))

RECURSIVE TextOfTable(_)
TextOfTable(rows) ==
    IF rows = <<>> THEN <<>>
    ELSE TextOfRow(Head(rows)) \o <<"\r">> \o TextOfTable(Tail(rows))

\* C6: a table block appends to the current container's story one block of
\* text, its cells' run texts joined by tabs within a row and every row
\* followed by a paragraph terminator; one row of two cells 'A' and 'B'
\* appends exactly 'A\tB\r'.
C6_TableFlattened ==
    [][TableStep
       => /\ Chars(EarlierText) = Chars(stories[CurrentStoryId])
          /\ Chars(Appended) = TextOfTable(content[i + 1].rows)
          /\ content[i + 1] = OneRowTable
                => Chars(Appended) = <<"A", "\t", "B", "\r">>]_vars

C6_Witness ==
    /\ Len(trace) = 2
    /\ content[1] = TwoRowTable
    /\ content[2] = OneRowTable
    /\ Chars(stories[CurrentStoryId])
         = <<"A", "B", "\r", "\t", "C", "\r", "A", "\t", "B", "\r">>

\* C7: a table block never advances the flow, even with autoFlow enabled and
\* the current container overflowing after it: the page index, the current
\* container, the chain and every successor link are unchanged by it; while
\* the current container overflows, a step advances exactly when it places a
\* paragraph block.
C7_TableNeverAdvances ==
    [][/\ TableStep
            => UNCHANGED <<currentPageIndex, currentTextFrame, linkedFrames,
                           textFrames, pages, pagesCreated>>
       /\ (/\ i' = i + 1
           /\ autoFlow
           /\ Overflows(textFrames, stories, currentTextFrame))
            => (currentTextFrame' # currentTextFrame <=> PlacedParagraph)]_vars

C7_Witness ==
    /\ autoFlow
    /\ Len(trace) = 2
    /\ trace[1].kind = "table"
    /\ trace[1].overflows
    /\ trace[2].kind = "paragraph"
    /\ trace[2].frame = trace[1].frame
    /\ currentTextFrame # trace[1].frame

\* the characters a step appended carry no paragraph style and no character
\* formatting
AppendedPlain ==
    \A k \in DOMAIN Appended : Appended[k] = PlainChar(Appended[k].ch)

\* C8 as stated: a table block only appends text: no paragraph style, no
\* character formatting, and every cumulative counter, paragraphsPlaced
\* included, is the same after the table block as before it.
C8_TableLeavesCounters ==
    [][TableStep
       => /\ EarlierTextKept
          /\ AppendedPlain
          /\ UNCHANGED <<paragraphStyles, pagesCreated, linkedFrames>>
          /\ paragraphsPlaced' = paragraphsPlaced]_vars

\* C8 amended: a table block only appends text: no paragraph style, no
\* character formatting, pagesCreated and the chain are unchanged, and
\* paragraphsPlaced grows by exactly 1 when the flattened text is non-empty
\* and is unchanged when it is empty.
C8_TableCountsAsOneParagraph ==
    [][TableStep
       => /\ EarlierTextKept
          /\ AppendedPlain
          /\ UNCHANGED <<paragraphStyles, pagesCreated, linkedFrames>>
          /\ paragraphsPlaced' =
                paragraphsPlaced + (IF Appended # <<>> THEN 1 ELSE 0)]_vars

C8_Witness ==
    /\ Len(trace) = 2
    /\ trace[1].kind = "table"
    /\ trace[1].text = <<>>
    /\ trace[2].kind = "table"
    /\ trace[2].text # <<>>
    /\ paragraphsPlaced = 1

\* the run is over; Summary is what it returned
Done == pc = "done"

Summary == result[1]

\* a run whose blocks are all paragraphs and in which the container never
\* reported overflow
OnlyFittingParagraphs ==
    /\ \A k \in DOMAIN content : content[k].type = "paragraph"
    /\ \A k \in DOMAIN trace : ~trace[k].overflows

\* C9 as stated: for blocks that are all paragraphs and never overflow, the
\* summary has pagesCreated == 0, framesCreated == 1 and endPage == startPage,
\* for every startPage and every initial document.
C9_FittingParagraphsCreateNoPage ==
    (Done /\ OnlyFittingParagraphs)
    => /\ Summary.pagesCreated = 0
       /\ Summary.framesCreated = 1
       /\ Summary.endPage = Summary.startPage

\* C9 amended: for blocks that are all paragraphs and never overflow, the
\* summary has framesCreated == 1, endPage == startPage and pagesCreated equal
\* to the number of pages the document lacked up to startPage, that is
\* max(0, startPage + 1 - initial page count): 0 when startPage is an existing
\* page.
C9_FittingParagraphsCreateOnlyStartPage ==
    (Done /\ OnlyFittingParagraphs)
    => /\ Summary.pagesCreated = Max(0, startPage + 1 - pagesBefore)
       /\ Len(pages) = pagesBefore + Summary.pagesCreated
       /\ Summary.framesCreated = 1
       /\ Len(textFrames) = 1
       /\ Summary.endPage = Summary.startPage
       /\ Summary.startPage = startPage

C9_Witness ==
    /\ Done
    /\ OnlyFittingParagraphs
    /\ Len(content) = 2
    /\ paragraphsPlaced = 2
    /\ startPage >= pagesBefore
    /\ Summary.pagesCreated = 1

\* a run of two paragraph blocks with autoFlow enabled, the first exceeding the
\* initial container, the second fitting
FirstOverflowsSecondFits ==
    /\ autoFlow
    /\ Len(trace) = 2
    /\ trace[1].kind = "paragraph"
    /\ trace[1].overflows
    /\ trace[2].kind = "paragraph"
    /\ ~trace[2].overflows

\* C10 as stated: with autoFlow, a first paragraph that exceeds the initial
\* container followed by a second that fits yields pagesCreated == 1,
\* framesCreated == 2 and the first container's successor is the second.
C10_OverflowCreatesOnePage ==
    (Done /\ FirstOverflowsSecondFits)
    => /\ Summary.pagesCreated = 1
       /\ Summary.framesCreated = 2
       /\ textFrames[linkedFrames[1]].nextTextFrame = linkedFrames[2]

\* C10 amended: with autoFlow, a first paragraph that exceeds the initial
\* container followed by a second that fits yields framesCreated == 2, the
\* first container's successor is the second, and pagesCreated equals the
\* number of pages the document lacked up to startPage + 1, that is
\* max(0, startPage + 2 - initial page count): 1 when the start page was the
\* document's last page.
C10_OverflowCreatesMissingPages ==
    (Done /\ FirstOverflowsSecondFits)
    => /\ Summary.pagesCreated = Max(0, startPage + 2 - pagesBefore)
       /\ Len(pages) = pagesBefore + Summary.pagesCreated
       /\ Summary.framesCreated = 2
       /\ Len(linkedFrames) = 2
       /\ textFrames[linkedFrames[1]].nextTextFrame = linkedFrames[2]
       /\ textFrames[linkedFrames[1]].page = startPage
       /\ textFrames[linkedFrames[2]].page = startPage + 1
       /\ Summary.endPage = startPage + 1

C10_Witness ==
    /\ Done
    /\ FirstOverflowsSecondFits
    /\ startPage + 1 = pagesBefore
    /\ Summary.pagesCreated = 1

\* the story of the flow: the one the chain's frames show
FlowStory == stories[textFrames[linkedFrames[1]].parentStory]

\* the characters of the flow's story that step k of the run appended
PlacedChars(k) ==
    SubSeq(FlowStory, trace[k].startIndex + 1, trace[k].startIndex + Len(trace[k].text))

\* C11: every placed paragraph block with style name S carries, from its
\* placement on, the paragraph style named styleMapping[S] when S is a key of
\* the map and S itself otherwise; a single paragraph 'Hello' styled 'Normal',
\* with the map Normal -> Body Text and a container that holds it, leaves the
\* story 'Hello\r' styled 'Body Text' and the summary
\* {pagesCreated: 0, paragraphsPlaced: 1, framesCreated: 1, startPage: 0,
\* endPage: 0}.
C11_MappedStyleApplied ==
    /\ \A k \in DOMAIN trace :
          (trace[k].kind = "paragraph" /\ content[k].style # "")
          => /\ TargetStyle(content[k].style) \in paragraphStyles
             /\ \A c \in DOMAIN PlacedChars(k) :
                   PlacedChars(k)[c].appliedParagraphStyle = TargetStyle(content[k].style)
    /\ (/\ Done
        /\ content = <<Hello>>
        /\ styleMapping = DefaultMapping
        /\ startPage = 0
        /\ ~trace[1].overflows)
       => /\ Chars(FlowStory) = <<"H", "e", "l", "l", "o", "\r">>
          /\ \A c \in DOMAIN FlowStory : FlowStory[c].appliedParagraphStyle = "Body Text"
          /\ Summary = [pagesCreated |-> 0, paragraphsPlaced |-> 1, framesCreated |-> 1,
                        startPage |-> 0, endPage |-> 0]

C11_Witness ==
    /\ Done
    /\ styleMapping = DefaultMapping
    /\ content = <<Hello, AllFormatted>>
    /\ PlacedChars(1)[1].appliedParagraphStyle = "Body Text"
    /\ PlacedChars(2)[1].appliedParagraphStyle = "Heading"

----------------------------------------------------------------------------

\* the step resolves the style of the paragraph block it places
ResolvesStyle ==
    /\ pc = "flowing"
    /\ i < Len(content)
    /\ content[i + 1].type = "paragraph"
    /\ content[i + 1].style # ""
    /\ i' = i + 1

LastCharOfStep == stories'[CurrentStoryId][Len(stories'[CurrentStoryId])]

\* C12: style resolution is idempotent within one flow and across flows on the
\* same document: every resolution of a source style name gives the style of
\* the one target name (the mapped name, else the source name), whatever was
\* resolved before; it adds that one name to the document's paragraph styles
\* when the document lacks it and adds nothing when the document holds it; no
\* other step changes the document's paragraph styles.
C12_StyleResolutionIdempotent ==
    [][IF ResolvesStyle
       THEN /\ LastCharOfStep.appliedParagraphStyle = TargetStyle(content[i + 1].style)
            /\ paragraphStyles' = paragraphStyles \cup {TargetStyle(content[i + 1].style)}
            /\ Cardinality(paragraphStyles') <= Cardinality(paragraphStyles) + 1
            /\ TargetStyle(content[i + 1].style) \in paragraphStyles
                   => paragraphStyles' = paragraphStyles
       ELSE paragraphStyles' = paragraphStyles]_vars

\* a second flow has resolved, to the same style, a name the first flow added
C12_Witness ==
    /\ calls = 2
    /\ pc = "done"
    /\ linkedFrames[1] # 1
    /\ "Heading" \in paragraphStyles
    /\ \E c \in DOMAIN stories[1] : stories[1][c].appliedParagraphStyle = "Heading"
    /\ \E c \in DOMAIN FlowStory : FlowStory[c].appliedParagraphStyle = "Heading"
    /\ content = <<AllFormatted, OneRowTable>>
    /\ Cardinality(paragraphStyles) = 3

----------------------------------------------------------------------------

\* the host calls of style resolution and of style and character formatting
StyleCalls == {"itemByName", "add", "basicParagraph"}

\* C13: style resolution never raises to the caller: whichever of the host's
\* style calls throw (lookup of the target, creation, lookup of the default
\* style), no exception of theirs leaves the handler, the block is placed as a
\* paragraph, and a paragraph whose style could not be created carries the
\* default style.
C13_StyleResolutionNeverRaises ==
    /\ error \notin StyleCalls
    /\ \A k \in DOMAIN trace :
          trace[k].threw \subseteq StyleCalls => trace[k].kind # "thrown"
    /\ \A k \in DOMAIN trace :
          (trace[k].kind = "paragraph" /\ trace[k].threw \subseteq StyleCalls
             /\ "add" \in trace[k].threw)
          => \A c \in DOMAIN PlacedChars(k) :
                PlacedChars(k)[c].appliedParagraphStyle = BasicParagraph

\* the exceptions the handler catches around style application and character
\* formatting
ThrewInFormatting(k) ==
    \/ "appliedParagraphStyle" \in trace[k].threw
    \/ \E g \in DOMAIN trace[k].ranges : trace[k].ranges[g].threw

\* C14: a failure to apply a paragraph style or to format a character is not
\* fatal: the block's text stays appended, the block counts as placed, the
\* overflow check runs, and after a formatting failure in one run the later
\* formatted runs of the paragraph are formatted over their own ranges, each
\* starting at the paragraph's offset plus the lengths of all runs before it.
C14_FormattingFailuresNonFatal ==
    \A k \in DOMAIN trace :
        (ThrewInFormatting(k)
           /\ trace[k].threw \subseteq StyleCalls \cup {"appliedParagraphStyle"})
        => LET runs == content[k].runs
               s == trace[k].startIndex
           IN  /\ trace[k].kind = "paragraph"
               /\ Chars(PlacedChars(k)) = trace[k].text
               /\ paragraphsPlaced >= k - Cardinality({j \in 1..k : trace[j].text = <<>>})
               /\ (autoFlow /\ trace[k].overflows) => trace[k].advanced
               /\ \A g, h \in DOMAIN trace[k].ranges :
                      (g < h /\ trace[k].ranges[g].threw)
                      => /\ trace[k].ranges[h].from
                              = s + Len(ConcatRuns(runs, trace[k].ranges[h].run - 1))
                         /\ trace[k].ranges[h].to
                              = s + Len(ConcatRuns(runs, trace[k].ranges[h].run))

FatalCalls == {"pages.add", "textFrames.add", "contents"}

\* the step is one in which page creation, frame creation or text append threw
FatalCallThrew ==
    \/ error' \in FatalCalls
    \/ Len(trace') > Len(trace) /\ trace'[Len(trace')].threw \cap FatalCalls # {}

\* what the document held before the step is still there after it
NothingRolledBack ==
    /\ Len(pages') >= Len(pages) /\ SubSeq(pages', 1, Len(pages)) = pages
    /\ Len(textFrames') >= Len(textFrames)
    /\ \A f \in DOMAIN textFrames : textFrames'[f] = textFrames[f]
    /\ \A s \in DOMAIN stories :
          /\ s \in DOMAIN stories'
          /\ Len(stories'[s]) >= Len(stories[s])
          /\ SubSeq(stories'[s], 1, Len(stories[s])) = stories[s]
    /\ paragraphStyles \subseteq paragraphStyles'

\* C15: a throw of page creation, frame creation or text append is fatal: the
\* flow stops at that block (the loop index stays, no later step is taken and
\* no summary is returned), the host's error is the one the caller gets, and
\* what the document held before the step is kept, as is what the step did
\* before the throw: a throw of the append leaves the story and the counter as
\* they were, a throw while advancing leaves the block appended and counted.
C15_FatalFailuresStopTheFlow ==
    [][/\ pc # "failed"
       /\ FatalCallThrew
          => /\ pc' = "failed"
             /\ result' = <<>>
             /\ error' \in FatalCalls
             /\ pc = "flowing" => /\ i' = i
                                  /\ trace'[Len(trace')].threw \cap FatalCalls = {error'}
                                  /\ linkedFrames' = linkedFrames
                                  /\ currentTextFrame' = currentTextFrame
                                  /\ textFrames' = textFrames
             /\ NothingRolledBack
             /\ (pc = "flowing" /\ error' = "contents")
                   => stories' = stories /\ paragraphsPlaced' = paragraphsPlaced
             /\ (pc = "flowing" /\ error' # "contents")
                   => /\ paragraphsPlaced' = paragraphsPlaced + 1
                      /\ Chars(stories'[CurrentStoryId])
                           = Chars(stories[CurrentStoryId]) \o trace'[Len(trace')].text]_vars

\* the second block's advance failed at the frame creation, after its page
\* was added: the flow stopped with both blocks appended and counted
C15_Witness ==
    /\ pc = "failed"
    /\ error = "textFrames.add"
    /\ Len(trace) = 2
    /\ trace[1].kind = "paragraph"
    /\ trace[2].kind = "thrown"
    /\ paragraphsPlaced = 2
    /\ pagesCreated >= 1
    /\ result = <<>>

----------------------------------------------------------------------------

\* C16: a call without the autoFlow option flows as with autoFlow true (an
\* overflowing paragraph advances), a call without the startPage option
\* starts on page 0; with autoFlow false no step advances: every block goes to
\* the initial container, which stays the current and only container of the
\* chain, the current page stays the start page, and the summary reports
\* framesCreated 1 and endPage equal to startPage.
C16_DefaultsAndNoFlow ==
    pc # "idle"
    => /\ command.autoFlow = Absent
            => /\ autoFlow
               /\ \A k \in DOMAIN trace :
                      (trace[k].kind = "paragraph" /\ trace[k].overflows)
                      => trace[k].advanced
       /\ command.startPage = Absent
            => /\ startPage = 0
               /\ textFrames[linkedFrames[1]].page = 0
       /\ command.autoFlow = <<FALSE>>
            => /\ ~autoFlow
               /\ linkedFrames = <<currentTextFrame>>
               /\ textFrames[currentTextFrame].nextTextFrame = NoFrame
               /\ currentPageIndex = startPage
               /\ textFrames[currentTextFrame].page = startPage
               /\ \A k \in DOMAIN trace :
                      /\ trace[k].frame = currentTextFrame
                      /\ ~trace[k].advanced
                      /\ Chars(PlacedChars(k)) = trace[k].text
               /\ Done => /\ Summary.framesCreated = 1
                          /\ Summary.endPage = Summary.startPage

\* a flow without autoFlow has gone through two blocks, the first of which
\* left its container overflowing, on the default start page
C16_Witness ==
    /\ Done
    /\ command = [autoFlow |-> <<FALSE>>, startPage |-> Absent]
    /\ Len(trace) = 2
    /\ trace[1].kind = "paragraph"
    /\ trace[1].overflows
    /\ trace[2].text # <<>>
    /\ Summary.framesCreated = 1

----------------------------------------------------------------------------

\* the pages of the chain's containers, in chain order
ChainPages == [k \in DOMAIN linkedFrames |-> textFrames[linkedFrames[k]].page]

\* C17: during one flow no step decreases the current page index, and the
\* chain's order is the order in which pages were visited: a container
\* earlier in the chain is on a page whose index is at most that of any later
\* container, and the last container is on the current page.
C17_PageIndexMonotone ==
    [][/\ pc = "flowing" => currentPageIndex' >= currentPageIndex
       /\ \A a, b \in DOMAIN ChainPages' : a < b => ChainPages'[a] <= ChainPages'[b]
       /\ ChainPages'[Len(ChainPages')] = currentPageIndex']_vars

\* a flow started on page 1 has advanced twice
C17_Witness ==
    /\ startPage = 1
    /\ ChainPages = <<1, 2, 3>>
    /\ currentPageIndex = 3

----------------------------------------------------------------------------

\* the text of one block as the input gives it: a paragraph's runs and its
\* terminator (nothing for an empty paragraph without style), a table's rows
TextOfBlock(block) ==
    IF block.type = "table" THEN TextOfTable(block.rows)
    ELSE IF TextOfRuns(block.runs) # <<>> THEN TextOfRuns(block.runs) \o <<"\r">>
    ELSE IF block.style # "" THEN <<"\r">>
    ELSE <<>>

RECURSIVE TextOfBlocks(_)
TextOfBlocks(blocks) ==
    IF blocks = <<>> THEN <<>>
    ELSE TextOfBlock(Head(blocks)) \o TextOfBlocks(Tail(blocks))

\* C18: blocks are placed in input order: after each block, and at
\* completion, the text of the flow's story is the concatenation, in input
\* order, of the texts of the blocks processed so far, skipped blocks adding
\* nothing.
C18_InputOrder ==
    pc \in {"flowing", "done"}
    => /\ Chars(FlowStory) = TextOfBlocks(SubSeq(content, 1, i))
       /\ Done => Chars(FlowStory) = TextOfBlocks(content)

\* a table and a paragraph were placed, in this order, over two containers
C18_Witness ==
    /\ Done
    /\ content = <<OneRowTable, Hello>>
    /\ Len(linkedFrames) = 2
    /\ Chars(FlowStory) = <<"A", "\t", "B", "\r", "H", "e", "l", "l", "o", "\r">>

----------------------------------------------------------------------------

Successor(frames, f) == frames[f].nextTextFrame

\* C19: the chain is append-only and linear: a successor once set is never
\* changed or cleared, only the container that is current receives one, the
\* current container has none, no container is the successor of two, the
\* chain list only grows at its end, and each container of the list has the
\* next one of the list as its successor.
C19_ChainAppendOnlyLinear ==
    [][/\ \A f \in DOMAIN textFrames :
             /\ Successor(textFrames, f) # NoFrame
                  => Successor(textFrames', f) = Successor(textFrames, f)
             /\ Successor(textFrames', f) # Successor(textFrames, f)
                  => f = currentTextFrame
       /\ pc = "flowing"
            => /\ Len(linkedFrames') >= Len(linkedFrames)
               /\ SubSeq(linkedFrames', 1, Len(linkedFrames)) = linkedFrames
       /\ Successor(textFrames', currentTextFrame') = NoFrame
       /\ currentTextFrame' = linkedFrames'[Len(linkedFrames')]
       /\ \A f, g \in DOMAIN textFrames' :
             (f # g /\ Successor(textFrames', f) # NoFrame)
             => Successor(textFrames', f) # Successor(textFrames', g)
       /\ \A k \in 1..(Len(linkedFrames') - 1) :
             Successor(textFrames', linkedFrames'[k]) = linkedFrames'[k + 1]]_vars

\* a chain of three containers, each linked to the next
C19_Witness ==
    /\ Len(linkedFrames) = 3
    /\ Successor(textFrames, linkedFrames[1]) = linkedFrames[2]
    /\ Successor(textFrames, linkedFrames[2]) = linkedFrames[3]
    /\ currentTextFrame = linkedFrames[3]
    /\ Successor(textFrames, currentTextFrame) = NoFrame

----------------------------------------------------------------------------

\* the page index the step hands to ensurePage, -1 when it does not call it
EnsuredIndex ==
    IF pc = "idle" THEN startPage'
    ELSE IF currentPageIndex' # currentPageIndex THEN currentPageIndex'
    ELSE -1

\* C20: ensurePage(index) appends pages at the end of the document only, and
\* only while the document has fewer than index + 1 pages, counting each in
\* pagesCreated: after it the document has max(previous, index + 1) pages,
\* the pages it had keep their indices, a step that does not call it leaves
\* the pages alone, and the summary's pagesCreated is the number of pages the
\* document gained during the flow.
C20_EnsurePageCounts ==
    [][/\ Len(pages') = Max(Len(pages), EnsuredIndex + 1)
       /\ SubSeq(pages', 1, Len(pages)) = pages
       /\ pagesCreated' - (IF pc = "idle" THEN 0 ELSE pagesCreated)
            = Len(pages') - Len(pages)
       /\ pagesCreated' = Len(pages') - pagesBefore'
       /\ pc' = "done" => result'[1].pagesCreated = Len(pages') - pagesBefore']_vars

\* a flow started on page 1 of a one-page document has advanced once: the
\* start added one page, the advance another
C20_Witness ==
    /\ Done
    /\ startPage = 1
    /\ pagesBefore = 1
    /\ Len(linkedFrames) = 2
    /\ Len(pages) = 3
    /\ Summary.pagesCreated = 2

----------------------------------------------------------------------------

\* the width and height of a page, from its bounds [y1, x1, y2, x2]
PageWidth(page) == page.bounds[4] - page.bounds[2]

PageHeight(page) == page.bounds[3] - page.bounds[1]

\* the rectangle [x, y, width, height] a frame's geometricBounds span
Spanned(frame) ==
    [x |-> frame.geometricBounds[2],
     y |-> frame.geometricBounds[1],
     width |-> frame.geometricBounds[4] - frame.geometricBounds[2],
     height |-> frame.geometricBounds[3] - frame.geometricBounds[1]]

\* C21: every container the handler creates spans the content bounds of the
\* page it lies on: x is that page's left margin, y its top margin, width its
\* width less its left and right margins, height its height less its top and
\* bottom margins.
C21_ContainerSpansContentBounds ==
    \A f \in DOMAIN textFrames :
        LET page == pages[textFrames[f].page + 1]
            m == page.marginPreferences
        IN  Spanned(textFrames[f]) =
                [x |-> m.left,
                 y |-> m.top,
                 width |-> PageWidth(page) - m.left - m.right,
                 height |-> PageHeight(page) - m.top - m.bottom]

\* two containers on pages of different size and margins
C21_Witness ==
    /\ Len(textFrames) >= 2
    /\ pages[textFrames[1].page + 1] = PageB
    /\ pages[textFrames[2].page + 1] = PageA
    /\ textFrames[1].geometricBounds = <<2, 1, 11, 7>>
    /\ textFrames[2].geometricBounds = <<1, 1, 9, 7>>

----------------------------------------------------------------------------

\* the blocks of the current call that appended text
PlacedCount(tr) == Cardinality({k \in DOMAIN tr : tr[k].text # <<>>})

\* the frames the document held when the current call began
EarlierFrames(chain) == 1..(chain[1] - 1)

\* C22: calls of the handler are independent: a call on a document an earlier
\* call has flowed into starts with counters at zero and with a container it
\* creates itself, also when its start page holds a container of the earlier
\* call; no step of it changes a frame or a story the document held when it
\* began; and its summary counts only what the call itself placed and created.
C22_InvocationsIndependent ==
    [][/\ (pc \in {"idle", "done"} /\ pc' = "flowing")
            => /\ paragraphsPlaced' = 0
               /\ pagesCreated' = Len(pages') - Len(pages)
               /\ Len(linkedFrames') = 1
               /\ linkedFrames'[1] \notin DOMAIN textFrames
               /\ currentTextFrame' = linkedFrames'[1]
               /\ Successor(textFrames', currentTextFrame') = NoFrame
               /\ stories'[textFrames'[currentTextFrame'].parentStory] = <<>>
       /\ pc' # "idle"
            => /\ \A f \in EarlierFrames(linkedFrames') :
                      /\ textFrames'[f] = textFrames[f]
                      /\ stories'[textFrames[f].parentStory]
                           = stories[textFrames[f].parentStory]
                      /\ textFrames'[f].parentStory
                           # textFrames'[currentTextFrame'].parentStory
       /\ pc' = "done"
            => result'[1] =
                   [pagesCreated |-> Len(pages') - pagesBefore',
                    paragraphsPlaced |-> PlacedCount(trace'),
                    framesCreated |-> Len(textFrames') - (linkedFrames'[1] - 1),
                    startPage |-> startPage',
                    endPage |-> startPage' + Len(textFrames') - linkedFrames'[1]]]_vars

\* a second call has flowed two blocks from a page that held a container of
\* the first call, which still shows the first call's text
C22_Witness ==
    /\ calls = 2
    /\ Done
    /\ linkedFrames[1] > 1
    /\ textFrames[1].page = startPage
    /\ stories[textFrames[1].parentStory] # <<>>
    /\ Summary.paragraphsPlaced = 2
    /\ Summary.framesCreated = Len(linkedFrames)

\* the page index a command was called with
RequestedPage(r) ==
    IF r.command = "getTextFrames" THEN r.options.pageIndex[1] ELSE r.options.pageIndex

\* the command was called with a page index that denotes no page of the document
NoSuchPage(r) ==
    /\ \/ r.command \in {"createTextFrame", "placeImage"}
       \/ r.command = "getTextFrames" /\ r.options.pageIndex # Absent
    /\ RequestedPage(r) \notin 0..(Len(pages) - 1)

IsFrameId(id) == \E f \in DOMAIN textFrames : FrameId(f) = id

\* the command was called with a frame id that no text frame has
NoSuchFrame(r) ==
    \/ r.command = "linkTextFrames"
       /\ (~IsFrameId(r.options.sourceFrameId) \/ ~IsFrameId(r.options.targetFrameId))
    \/ r.command = "insertText" /\ ~IsFrameId(r.options.frameId)

\* C23: createTextFrame, placeImage and getTextFrames called with a page index
\* outside 0 .. pageCount - 1, and linkTextFrames and insertText called with
\* a frame id no text frame has, answer with an error and leave the document
\* as it was: no frame created, no text inserted, no link set.
C23_InvalidTargetsRejected ==
    [][ (NoSuchPage(reply') \/ NoSuchFrame(reply'))
        => /\ reply'.threw # ""
           /\ UNCHANGED <<textFrames, stories, rectangles>> ]_vars

\* C25: a placeImage that fails after its rectangle was added (the placing
\* or the fitting threw) leaves the rectangles of the document as they were
\* before the call; a placeImage that succeeds adds exactly one rectangle.
C25_PlaceImageLeavesNoTrace ==
    [][ reply'.command = "placeImage"
        => IF reply'.threw # ""
           THEN rectangles' = rectangles
           ELSE /\ Len(rectangles') = Len(rectangles) + 1
                /\ SubSeq(rectangles', 1, Len(rectangles)) = rectangles
                /\ rectangles'[Len(rectangles')].image = <<reply'.options.imagePath>> ]_vars

\* a placeImage whose fitting threw, on a document holding the rectangle of
\* an earlier placeImage that succeeded
C25_Witness ==
    /\ reply.command = "placeImage"
    /\ reply.threw = "Failed to place image"
    /\ reply.host = "fit"
    /\ Len(rectangles) = 1
    /\ rectangles[1].image # Absent

\* character p (from 1) of the story came out of a step with a font style or
\* an underline other than the one it had, or than the plain one of text just
\* appended
Restyled(old, new, p) ==
    LET was == IF p <= Len(old) THEN old[p] ELSE PlainChar(new[p].ch)
    IN  new[p].fontStyle # was.fontStyle \/ new[p].underline # was.underline

\* character p (from 1) of the story lies in the range of a formatted run of
\* the paragraph appended at offset s
InFormattedRun(runs, s, p) ==
    \E r \in DOMAIN runs :
        /\ Len(runs[r].text) > 0
        /\ runs[r].formatting # NoFormatting
        /\ p - 1 >= s + Len(ConcatRuns(runs, r - 1))
        /\ p - 1 < s + Len(ConcatRuns(runs, r))

\* C24: the formatting of the runs of a placed paragraph leaves the story's
\* characters and length as the appending left them, and restyles only
\* characters inside the range of a formatted run of the paragraph just
\* appended, a range ending where the story ends when it reaches further.
C24_FormattingOnlyStylesItsRange ==
    [][ PlacedParagraph
        => LET old == stories[CurrentStoryId]
               new == stories'[CurrentStoryId]
               step == trace'[Len(trace')]
           IN  /\ Chars(new) = Chars(old) \o step.text
               /\ \A p \in 1..Len(new) :
                      Restyled(old, new, p)
                      => InFormattedRun(content[i + 1].runs, Len(old), p) ]_vars

\* C26: at every point of a flow the chain, the page index and the summary
\* agree: the chain holds currentPageIndex - startPage + 1 containers, its
\* i-th container (from 0) lies on page startPage + i, and the summary of a
\* completed flow has framesCreated = endPage - startPage + 1.
C26_ChainIndexSummaryAgree ==
    /\ pc \in {"flowing", "done"}
        => /\ Len(linkedFrames) = currentPageIndex - startPage + 1
           /\ \A k \in DOMAIN linkedFrames : ChainPages[k] = startPage + (k - 1)
    /\ Done
        => /\ Summary.framesCreated = Summary.endPage - Summary.startPage + 1
           /\ Summary.framesCreated = Len(linkedFrames)
           /\ Summary.endPage = currentPageIndex
           /\ Summary.startPage = startPage

\* a completed flow that began on page 1 and advanced at least once
C26_Witness ==
    /\ Done
    /\ startPage = 1
    /\ Len(linkedFrames) >= 2
    /\ Summary.endPage = Len(linkedFrames)

\* the steps of the current call that placed a paragraph block
ParagraphSteps(tr) == {k \in DOMAIN tr : tr[k].kind = "paragraph"}

\* C27: a placed paragraph block causes at most one advance, however much it
\* overflows: a step adds one container to the chain at most, and only when
\* it places a paragraph block, so the chain never holds more than 1 plus the
\* number of paragraph blocks placed so far; a paragraph that needs more than
\* one extra container leaves the new container overflowing.
C27_OneAdvancePerParagraph ==
    [][/\ pc = "flowing"
           => /\ Len(linkedFrames') <= Len(linkedFrames) + (IF PlacedParagraph THEN 1 ELSE 0)
              /\ Len(linkedFrames') >= Len(linkedFrames)
       /\ pc' \in {"flowing", "done"}
           => Len(linkedFrames') <= 1 + Cardinality(ParagraphSteps(trace'))]_vars

\* a completed flow that placed one paragraph needing two more containers and
\* got one: the container the advance created overflows
C27_Witness ==
    /\ Done
    /\ autoFlow
    /\ Cardinality(ParagraphSteps(trace)) = 1
    /\ Len(linkedFrames) = 2
    /\ currentTextFrame = linkedFrames[2]
    /\ Overflows(textFrames, stories, currentTextFrame)

\* the last step of the call that placed a paragraph block, 0 when none did
LastParagraphStep(tr) ==
    IF ParagraphSteps(tr) = {} THEN 0
    ELSE CHOOSE k \in ParagraphSteps(tr) : \A j \in ParagraphSteps(tr) : j <= k

\* the last step of the call that appended text, 0 when none did
LastPlacingStep(tr) ==
    IF \A k \in DOMAIN tr : tr[k].text = <<>> THEN 0
    ELSE CHOOSE k \in DOMAIN tr :
             /\ tr[k].text # <<>>
             /\ \A j \in DOMAIN tr : tr[j].text # <<>> => j <= k

\* an overflowing paragraph is followed by the advance in its own step,
\* whether or not a block follows
AdvancesAtOnce ==
    (PlacedParagraph /\ autoFlow /\ Overflows(textFrames, stories', currentTextFrame))
    => /\ currentPageIndex' = currentPageIndex + 1
       /\ Len(linkedFrames') = Len(linkedFrames) + 1
       /\ currentTextFrame' = linkedFrames'[Len(linkedFrames')]
       /\ currentTextFrame' \notin DOMAIN textFrames

\* the flow ended with a tail container: the step k created it, the summary
\* counts it, and no block was appended while it was current
EndsWithTail(tr, chain, index, res, k) ==
    /\ chain[Len(chain)] = tr[k].frames + 1
    /\ index = tr[k].page + 1
    /\ res.endPage = index
    /\ res.framesCreated = Len(chain)
    /\ \A j \in DOMAIN tr : tr[j].text # <<>> => tr[j].frame # chain[Len(chain)]

\* C28 as stated: the advance an overflowing paragraph triggers is performed
\* in the paragraph's own step, whether or not a block follows; and a flow
\* with autoFlow enabled whose last placed paragraph block overflowed ends
\* with a page index and a framesCreated that count a tail container into
\* which no block was appended.
C28_TailAfterLastParagraph ==
    [][/\ AdvancesAtOnce
       /\ (pc' = "done" /\ autoFlow' /\ LastParagraphStep(trace') # 0
              /\ trace'[LastParagraphStep(trace')].overflows)
           => EndsWithTail(trace', linkedFrames', currentPageIndex', result'[1],
                           LastParagraphStep(trace'))]_vars

\* C28: the advance an overflowing paragraph triggers is performed in the
\* paragraph's own step, whether or not a block follows; and a flow with
\* autoFlow enabled whose last placed block is a paragraph block that
\* overflowed ends with a page index and a framesCreated that count a tail
\* container into which no block was appended.
C28_TailAfterLastPlacedBlock ==
    [][/\ AdvancesAtOnce
       /\ (pc' = "done" /\ autoFlow' /\ LastPlacingStep(trace') # 0
              /\ trace'[LastPlacingStep(trace')].kind = "paragraph"
              /\ trace'[LastPlacingStep(trace')].overflows)
           => EndsWithTail(trace', linkedFrames', currentPageIndex', result'[1],
                           LastPlacingStep(trace'))]_vars

\* a completed flow whose last block is a paragraph that overflowed: the
\* chain ends with a container created after it, counted in the summary
C28_Witness ==
    /\ Done
    /\ autoFlow
    /\ Len(trace) > 0
    /\ Len(trace) = Len(content)
    /\ LastStep.kind = "paragraph"
    /\ LastStep.overflows
    /\ Len(linkedFrames) = 2
    /\ Summary.framesCreated = 2
    /\ Summary.endPage = startPage + 1
    /\ currentTextFrame = linkedFrames[2]
    /\ \A j \in DOMAIN trace : trace[j].frame = linkedFrames[1]

====
